---- MODULE Spec2Model ----
(***************************************************************************)
(* Durable punch pipeline of punchpad: the Punch Store (core/repo.py), the *)
(* Durable Queue (core/queue.py), the Reconciler (core/reconciler.py) and  *)
(* the Punch Orchestrator (core/punches.py).                               *)
(*                                                                         *)
(* Every SQL statement is one atomic step: get_conn opens the connection   *)
(* with isolation_level=None (autocommit) and no BEGIN is ever issued, so  *)
(* the statements of one repo function are separate transactions.          *)
(* Timestamps are whole seconds (the code formats with timespec=seconds).  *)
(***************************************************************************)
EXTENDS Naturals, Integers, Sequences, FiniteSets, TLC

\* ---------------------------------------------------------------- bounds
NumHandlers == 2
MaxCalls == 2
MaxTime == 2
MaxCrashes == 1
MaxPunches == 3

\* ------------------------------------------------------ program constants
DefaultDebounce == 30

Employees == {1, 2}
Handlers == 1 .. NumHandlers
Notes == {"None", "late"}
\* the kiosk loop and the web handler always pass note=None
CallNotes == {"None"}
DebounceSettings == {"None", "1"}
StoreModes == {"up", "down"}
NULL == 0
NoId == 0
FalsyId == -1

VARIABLES
    punches,      \* table punches: row id = index
    store,        \* availability of the SQLite file: up / down
    debounceSetting, \* settings row kiosk.debounce_seconds ("None" = absent)
    queueFile,    \* punch_queue.ndjson as a sequence of text chunks
    clock,        \* wall clock, seconds
    hs,           \* foreground handlers inside toggle_punch
    rc,           \* the Reconciler thread
    calls,        \* number of toggle_punch calls started (uuid4 source)
    crashes,      \* number of process crashes so far
    applyCount,   \* history: store mutations the Reconciler made per event id
    enqueuedIds,  \* history: ids whose enqueue_event returned
    appliedIds,   \* history: ids for which _apply_event returned True
    tickErrors,   \* history: the current tick caught a "Reconciler tick error"
    pinAttempts,  \* table pin_attempts, in insertion order
    active,       \* column employees.active per employee
    lockSettings, \* the three kiosk.* lockout settings rows ("None" = absent)
    lastCheck,    \* history: the result of the latest check_pin_lockout call
    ks,           \* PIN submissions in progress, one per kiosk terminal
    trail,        \* history: the toggle_punch results the callers received
    proc,         \* the process: launch mode and position of main()
    rcOther,      \* a second Reconciler thread, not holding the interpreter
    stopEvent,    \* the threading.Event returned by start_reconciler
    report        \* the report CLI: its arguments and what it computed

\* the state of the PIN pipeline (Attempt Ledger, Credential Store, callers)
entryVars == <<pinAttempts, active, lockSettings, lastCheck, ks, trail>>

\* the process around the pipeline
hostVars == <<proc, rcOther, stopEvent, report>>

vars == <<punches, store, debounceSetting, queueFile, clock, hs, rc, calls,
          crashes, applyCount, enqueuedIds, appliedIds, tickErrors, entryVars, hostVars>>

\* ------------------------------------------------------------ Punch Store
\* mutant: the open-punch lookup finds nothing
OpenRowsNone(P, e) == {}

OpenRows(P, e) == {i \in 1 .. Len(P) : P[i].employee_id = e /\ P[i].clock_out = NULL}

EmpRows(P, e) == {i \in 1 .. Len(P) : P[i].employee_id = e}

MaxOf(S) == CHOOSE m \in S : \A x \in S : x <= m

NewPunch(e, ts, method, note) ==
    [employee_id |-> e, clock_in |-> ts, clock_out |-> NULL,
     method |-> method, note |-> note]

InsertRow(P, e, ts, method, note) == Append(P, NewPunch(e, ts, method, note))

UpdateClockOut(P, pid, ts) == [P EXCEPT ![pid].clock_out = ts]

\* ------------------------------------------------------------ Orchestrator
DebounceSeconds(setting) ==
    IF setting = "None" THEN DefaultDebounce
    ELSE IF setting = "1" THEN 1 ELSE 0

\* mutant: the last action is taken to be a clock-in even when the row is
\* closed
should_block_last_in(P, e, action, debounce_seconds, now) ==
    IF EmpRows(P, e) = {} THEN FALSE
    ELSE LET row == P[MaxOf(EmpRows(P, e))]
             last_action == "in"
             last_ts == IF row.clock_out = NULL THEN row.clock_in ELSE row.clock_out
             delta == now - last_ts
         IN  last_action = action /\ delta >= 0 /\ delta < debounce_seconds

\* mutant: the comparison is the closed interval [0, window]
should_block_closed(P, e, action, debounce_seconds, now) ==
    IF EmpRows(P, e) = {} THEN FALSE
    ELSE LET row == P[MaxOf(EmpRows(P, e))]
             last_action == IF row.clock_out = NULL THEN "in" ELSE "out"
             last_ts == IF last_action = "in" THEN row.clock_in ELSE row.clock_out
             delta == now - last_ts
         IN  last_action = action /\ delta >= 0 /\ delta <= debounce_seconds

should_block_duplicate(P, e, action, debounce_seconds, now) ==
    IF EmpRows(P, e) = {} THEN FALSE
    ELSE LET row == P[MaxOf(EmpRows(P, e))]
             last_action == IF row.clock_out = NULL THEN "in" ELSE "out"
             last_ts == IF last_action = "in" THEN row.clock_in ELSE row.clock_out
             delta == now - last_ts
         IN  last_action = action /\ delta >= 0 /\ delta < debounce_seconds

Max0(n) == IF n < 0 THEN 0 ELSE n

\* ------------------------------------------------------------ Durable Queue
\* The log is a sequence of text chunks: "json" is the text of one JSON
\* object, "jsonval" the text of a JSON value that is not an object, "junk"
\* a fragment that is not JSON (a torn record), "nl" the newline character.
Chunk(t, id, kind, e, ts, note, method) ==
    [t |-> t, id |-> id, kind |-> kind, employee_id |-> e, ts |-> ts,
     note |-> note, method |-> method]

NL == Chunk("nl", NoId, "", 0, 0, "", "")

Junk == Chunk("junk", NoId, "", 0, 0, "", "")

Event(id, kind, e, ts, note, method) ==
    [id |-> id, kind |-> kind, employee_id |-> e, ts |-> ts, note |-> note,
     method |-> method]

\* json.dumps(event, separators=(",", ":")): Python None is written as null
json_dumps(ev) ==
    Chunk("json", ev.id, ev.kind, ev.employee_id, ev.ts,
          IF ev.note = "None" THEN "null" ELSE ev.note, ev.method)

\* the dict json.loads builds from the text of one JSON object
json_object(c) ==
    Event(c.id, c.kind, c.employee_id, c.ts,
          IF c.note = "null" THEN "None" ELSE c.note, c.method)

\* json.loads succeeds iff the line is the text of exactly one JSON value
json_loads_ok(body) == Len(body) = 1 /\ body[1].t \in {"json", "jsonval"}

json_is_dict(body) == json_loads_ok(body) /\ body[1].t = "json"

\* text-mode iteration over a file: lines end at a newline, the last line
\* may lack one
RECURSIVE SplitFrom(_, _, _)
SplitFrom(f, i, cur) ==
    IF i > Len(f)
    THEN IF Len(cur) = 0 THEN <<>> ELSE <<[body |-> cur, nl |-> FALSE]>>
    ELSE IF f[i].t = "nl"
         THEN <<[body |-> cur, nl |-> TRUE]>> \o SplitFrom(f, i + 1, <<>>)
         ELSE SplitFrom(f, i + 1, Append(cur, f[i]))

SplitLines(f) == SplitFrom(f, 1, <<>>)

LineText(ln) == IF ln.nl THEN Append(ln.body, NL) ELSE ln.body

enqueue_line(ev) == <<json_dumps(ev), NL>>

\* In a "json" chunk id = NoId says the object has no key "id"; id = FalsyId
\* says the key is there with a falsy value (null, "" or 0).
\* iter_events: skip blank lines, lines json.loads rejects, values that are
\* not a dict, and dicts without the key "id"
IterYields(ln) ==
    /\ Len(ln.body) > 0
    /\ json_is_dict(ln.body)
    /\ ln.body[1].id # NoId

\* mutant: the first line that is skipped ends the iteration
RECURSIVE IterLinesAborts(_, _)
IterLinesAborts(lines, i) ==
    IF i > Len(lines) THEN <<>>
    ELSE IF IterYields(lines[i])
         THEN <<json_object(lines[i].body[1])>> \o IterLinesAborts(lines, i + 1)
         ELSE <<>>

RECURSIVE IterLines(_, _)
IterLines(lines, i) ==
    IF i > Len(lines) THEN <<>>
    ELSE IF IterYields(lines[i])
         THEN <<json_object(lines[i].body[1])>> \o IterLines(lines, i + 1)
         ELSE IterLines(lines, i + 1)

iter_events(f) == IterLines(SplitLines(f), 1)

\* mutant: the copy loop drops every event line, whatever ids holds
RemoveDropsAny(ln, ids) ==
    /\ json_is_dict(ln.body)
    /\ ln.body[1].id \notin {NoId, FalsyId}

\* remove_events, the copy loop: a line is dropped iff it parses to a dict
\* whose id is truthy and in ids; every other line is copied verbatim
RemoveDrops(ln, ids) ==
    /\ json_is_dict(ln.body)
    /\ ln.body[1].id \notin {NoId, FalsyId}
    /\ ln.body[1].id \in ids

RECURSIVE RemoveLines(_, _, _)
RemoveLines(lines, i, ids) ==
    IF i > Len(lines) THEN <<>>
    ELSE IF RemoveDrops(lines[i], ids)
         THEN RemoveLines(lines, i + 1, ids)
         ELSE LineText(lines[i]) \o RemoveLines(lines, i + 1, ids)

\* mutant: the rewritten log keeps every line
remove_copy_keeps_all(f, ids) == f

remove_copy(f, ids) == RemoveLines(SplitLines(f), 1, ids)

SeqToSet(s) == {s[i] : i \in 1 .. Len(s)}

QueueIds(f) == {ev.id : ev \in SeqToSet(iter_events(f))}

\* ------------------------------------------------------- foreground handler
NoRes == [status |-> "none"]

\* history: action and now of the handler's previous call, when that call
\* returned a result for the same employee
NoPrev == [action |-> "", now |-> 0]

IdleH ==
    [pc |-> "idle", emp |-> 0, note |-> "None", now |-> 0, uuid |-> NoId,
     action |-> "", deb |-> 0, ts |-> 0, pid |-> 0, exc |-> "",
     res |-> NoRes, wrote |-> FALSE, allDown |-> FALSE, prev |-> NoPrev]

\* one step of handler p: h2 is its new record; allDown tracks whether the
\* store was unavailable at every step of the call
HStep(p, h2) ==
    hs' = [hs EXCEPT ![p] = [h2 EXCEPT !.allDown = hs[p].allDown /\ store = "down"]]

\* the exception of a failed direct write is caught: fall back to the queue
ToEnqueue(h) == [h EXCEPT !.pc = "enq"]

\* the call is over: only the result (or the exception) is left
Finished(h, pc, res, exc) ==
    [IdleH EXCEPT !.pc = pc, !.res = res, !.exc = exc, !.emp = h.emp,
                  !.now = h.now, !.uuid = h.uuid, !.wrote = h.wrote,
                  !.prev = h.prev]

Raised(h, exc) == Finished(h, "raised", NoRes, exc)

Returned(h, res) == Finished(h, "returned", res, "")

QueuedEvent(h) ==
    Event(h.uuid, IF h.action = "in" THEN "clock_in" ELSE "clock_out",
          h.emp, h.ts, h.note, "kiosk")

ResOk(h) ==
    [status |-> "ok", queued |-> FALSE, punch_id |-> h.pid, ts |-> h.ts,
     action |-> h.action]

\* mutant: the queued result also carries a punch id
ResQueuedWithPunch(h) ==
    [status |-> "queued", queued |-> TRUE, event_id |-> QueuedEvent(h).id,
     punch_id |-> h.pid, ts |-> h.ts, action |-> h.action]

ResQueued(h) ==
    [status |-> "queued", queued |-> TRUE, event_id |-> QueuedEvent(h).id,
     ts |-> h.ts, action |-> h.action]

ResBlocked(h) ==
    [status |-> "blocked", reason |-> "duplicate", action |-> h.action,
     retry_after_seconds |-> Max0(h.deb)]

\* the caller takes now_iso and calls toggle_punch(conn, e, "kiosk", note, now_iso)
Call(p, e, note) ==
    /\ hs[p].pc \in {"idle", "returned", "raised"}
    /\ calls < MaxCalls
    /\ calls' = calls + 1
    /\ hs' = [hs EXCEPT ![p] = [IdleH EXCEPT !.pc = "t_open", !.emp = e,
                                  !.note = note, !.now = clock,
                                  !.uuid = calls + 1, !.allDown = TRUE,
                                  !.prev = IF hs[p].pc = "returned" /\ hs[p].emp = e
                                           THEN [action |-> hs[p].res.action,
                                                 now |-> hs[p].now]
                                           ELSE NoPrev]]
    /\ UNCHANGED <<punches, store, debounceSetting, entryVars, hostVars, queueFile, clock, rc,
                   crashes, applyCount, enqueuedIds, appliedIds, tickErrors>>

HFrame == UNCHANGED <<punches, store, debounceSetting, entryVars, hostVars, queueFile, clock, rc,
                      calls, crashes, applyCount, enqueuedIds, appliedIds,
                      tickErrors>>

\* toggle_punch: SELECT id FROM punches WHERE employee_id=? AND clock_out IS NULL
ToggleSelectOpen(p) ==
    /\ hs[p].pc = "t_open"
    /\ IF store = "down"
       THEN HStep(p, Raised(hs[p], "OperationalError"))
       ELSE HStep(p, [hs[p] EXCEPT !.pc = "t_deb",
                        !.action = IF OpenRows(punches, hs[p].emp) # {}
                                   THEN "out" ELSE "in"])
    /\ HFrame

\* mutant: a blocked duplicate is handed to the queue fallback
ToggleDebounceEnqueues(p) ==
    /\ hs[p].pc = "t_deb"
    /\ LET h == [hs[p] EXCEPT !.deb = DebounceSeconds(debounceSetting)]
       IN  IF store = "down"
           THEN HStep(p, Raised(hs[p], "OperationalError"))
           ELSE IF should_block_duplicate(punches, h.emp, h.action, h.deb, h.now)
                THEN HStep(p, ToEnqueue(h))
                ELSE HStep(p, [h EXCEPT !.pc = IF h.action = "in"
                                                THEN "ci_get" ELSE "co_sel"])
    /\ HFrame

\* toggle_punch: int(get_setting("kiosk.debounce_seconds") or 30), then the
\* debounce check, then dispatch to clock_in / clock_out
ToggleDebounce(p) ==
    /\ hs[p].pc = "t_deb"
    /\ LET h == [hs[p] EXCEPT !.deb = DebounceSeconds(debounceSetting)]
       IN  IF store = "down"
           THEN HStep(p, Raised(hs[p], "OperationalError"))
           ELSE IF should_block_duplicate(punches, h.emp, h.action, h.deb, h.now)
                THEN HStep(p, Returned(h, ResBlocked(h)))
                ELSE HStep(p, [h EXCEPT !.pc = IF h.action = "in"
                                                THEN "ci_get" ELSE "co_sel"])
    /\ HFrame

\* clock_in: ts = now; get_open_punch(employee_id)
ClockInGetOpen(p) ==
    /\ hs[p].pc = "ci_get"
    /\ LET h == [hs[p] EXCEPT !.ts = clock]
       IN  IF store = "down" THEN HStep(p, ToEnqueue(h))
           ELSE IF OpenRows(punches, h.emp) # {}
                THEN HStep(p, ToEnqueue(h))
                ELSE HStep(p, [h EXCEPT !.pc = "ci_sel"])
    /\ HFrame

\* insert_punch: the SELECT that guards the INSERT
InsertSelect(p) ==
    /\ hs[p].pc = "ci_sel"
    /\ IF store = "down" THEN HStep(p, ToEnqueue(hs[p]))
       ELSE IF OpenRows(punches, hs[p].emp) # {}
            THEN HStep(p, ToEnqueue(hs[p]))
            ELSE HStep(p, [hs[p] EXCEPT !.pc = "ci_ins"])
    /\ HFrame

\* insert_punch: INSERT INTO punches(..., clock_out) VALUES(..., NULL)
InsertPunch(p) ==
    /\ hs[p].pc = "ci_ins"
    /\ Len(punches) < MaxPunches
    /\ IF store = "up"
       THEN /\ punches' = InsertRow(punches, hs[p].emp, hs[p].ts, "kiosk", hs[p].note)
            /\ HStep(p, [hs[p] EXCEPT !.pc = "audit", !.pid = Len(punches) + 1,
                           !.wrote = TRUE])
       ELSE /\ HStep(p, ToEnqueue(hs[p]))
            /\ UNCHANGED punches
    /\ UNCHANGED <<store, debounceSetting, entryVars, hostVars, queueFile, clock, rc, calls, crashes,
                   applyCount, enqueuedIds, appliedIds, tickErrors>>

\* clock_out: ts = now; close_open_punch: SELECT the open rows
CloseSelect(p) ==
    /\ hs[p].pc = "co_sel"
    /\ LET h == [hs[p] EXCEPT !.ts = clock]
           rows == OpenRows(punches, h.emp)
       IN  IF store = "down" THEN HStep(p, ToEnqueue(h))
           ELSE IF Cardinality(rows) # 1
                THEN HStep(p, ToEnqueue(h))
                ELSE HStep(p, [h EXCEPT !.pc = "co_upd",
                                 !.pid = CHOOSE i \in rows : TRUE])
    /\ HFrame

\* close_open_punch: UPDATE punches SET clock_out=? WHERE id=?
CloseUpdate(p) ==
    /\ hs[p].pc = "co_upd"
    /\ IF store = "up"
       THEN /\ punches' = UpdateClockOut(punches, hs[p].pid, hs[p].ts)
            /\ HStep(p, [hs[p] EXCEPT !.pc = "audit", !.wrote = TRUE])
       ELSE /\ HStep(p, ToEnqueue(hs[p]))
            /\ UNCHANGED punches
    /\ UNCHANGED <<store, debounceSetting, entryVars, hostVars, queueFile, clock, rc, calls, crashes,
                   applyCount, enqueuedIds, appliedIds, tickErrors>>

\* insert_punch / close_open_punch: append_audit on its own connection,
\* after the punch statement has been committed
HandlerAudit(p) ==
    /\ hs[p].pc = "audit"
    /\ IF store = "up"
       THEN HStep(p, Returned(hs[p], ResOk(hs[p])))
       ELSE HStep(p, ToEnqueue(hs[p]))
    /\ HFrame

\* except-branch of clock_in / clock_out: enqueue_event succeeds
Enqueue(p) ==
    /\ hs[p].pc = "enq"
    /\ queueFile' = queueFile \o enqueue_line(QueuedEvent(hs[p]))
    /\ enqueuedIds' = enqueuedIds \cup {hs[p].uuid}
    /\ HStep(p, Returned(hs[p], ResQueued(hs[p])))
    /\ UNCHANGED <<punches, store, debounceSetting, entryVars, hostVars, clock, rc, calls, crashes,
                   applyCount, appliedIds, tickErrors>>

\* enqueue_event raises OSError: at open (nothing written) or during the
\* write (disk full: a torn record without newline is left)
EnqueueFailModes == {"open", "write"}

EnqueueFail(p, mode) ==
    /\ hs[p].pc = "enq"
    /\ queueFile' = IF mode = "open" THEN queueFile ELSE Append(queueFile, Junk)
    /\ HStep(p, Raised(hs[p], "OSError"))
    /\ UNCHANGED <<punches, store, debounceSetting, entryVars, hostVars, clock, rc, calls, crashes,
                   applyCount, enqueuedIds, appliedIds, tickErrors>>

\* ---------------------------------------------------------------- Reconciler
IdleR == [pc |-> "wait", snap |-> <<>>, i |-> 0, applied |-> <<>>, pid |-> 0,
          tmp |-> <<>>]

RFrame == UNCHANGED <<punches, store, debounceSetting, entryVars, hostVars, queueFile, clock, hs,
                      calls, crashes, applyCount, enqueuedIds, tickErrors>>

\* mutant: the exception of snap[i] ends _run_loop
RSkipEndsLoop(r) == [r EXCEPT !.pc = "stopped"]

\* the event at snap[i] raised: logged, left for the next tick
RSkip(r) == [r EXCEPT !.pc = "sweep", !.i = r.i + 1]

\* mutant: the id of an applied event is not recorded
RAppliedForgets(r) == [r EXCEPT !.pc = "sweep", !.i = r.i + 1]

\* _apply_event returned True: applied_ids.append(ev_id)
RApplied(r) ==
    [r EXCEPT !.pc = "sweep", !.i = r.i + 1, !.applied = Append(r.applied, r.snap[r.i].id)]

\* mutant: the loop does not test the stop event
RSnapshotIgnoresStop ==
    /\ rc.pc = "wait"
    /\ rc' = [IdleR EXCEPT !.pc = "sweep", !.snap = iter_events(queueFile), !.i = 1]
    /\ tickErrors' = FALSE
    /\ UNCHANGED <<punches, store, debounceSetting, entryVars, hostVars, queueFile, clock, hs, calls,
                   crashes, applyCount, enqueuedIds, appliedIds>>

\* _run_loop: while not stop_event.is_set(): applied_ids = [];
\* list(iter_events())
RSnapshot ==
    /\ rc.pc = "wait"
    /\ ~stopEvent
    /\ rc' = [IdleR EXCEPT !.pc = "sweep", !.snap = iter_events(queueFile), !.i = 1]
    /\ tickErrors' = FALSE
    /\ UNCHANGED <<punches, store, debounceSetting, entryVars, hostVars, queueFile, clock, hs, calls,
                   crashes, applyCount, enqueuedIds, appliedIds>>

\* _apply_event: dispatch on kind and run the first statement of
\* insert_punch / close_open_punch (the SELECT of the open rows)
RApplySelect ==
    /\ rc.pc = "sweep"
    /\ rc.i <= Len(rc.snap)
    /\ LET ev == rc.snap[rc.i]
           rows == OpenRows(punches, ev.employee_id)
       IN  IF ev.kind \notin {"clock_in", "clock_out"}
           THEN /\ rc' = RApplied(rc)
                /\ appliedIds' = appliedIds \cup {ev.id}
           ELSE /\ appliedIds' = appliedIds
                /\ IF store = "down" THEN rc' = RSkip(rc)
                   ELSE IF ev.kind = "clock_in"
                        THEN IF rows # {} THEN rc' = RSkip(rc)
                             ELSE rc' = [rc EXCEPT !.pc = "r_ins"]
                        ELSE IF Cardinality(rows) # 1 THEN rc' = RSkip(rc)
                             ELSE rc' = [rc EXCEPT !.pc = "r_upd",
                                           !.pid = CHOOSE i \in rows : TRUE]
    /\ RFrame

\* insert_punch called by _apply_event: the INSERT
RApplyInsert ==
    /\ rc.pc = "r_ins"
    /\ Len(punches) < MaxPunches
    /\ LET ev == rc.snap[rc.i]
       IN  IF store = "up"
           THEN /\ punches' = InsertRow(punches, ev.employee_id, ev.ts, ev.method, ev.note)
                /\ applyCount' = [applyCount EXCEPT ![ev.id] = @ + 1]
                /\ rc' = [rc EXCEPT !.pc = "r_audit"]
           ELSE /\ rc' = RSkip(rc)
                /\ UNCHANGED <<punches, applyCount>>
    /\ UNCHANGED <<store, debounceSetting, entryVars, hostVars, queueFile, clock, hs, calls, crashes,
                   enqueuedIds, appliedIds, tickErrors>>

\* close_open_punch called by _apply_event: the UPDATE
RApplyUpdate ==
    /\ rc.pc = "r_upd"
    /\ LET ev == rc.snap[rc.i]
       IN  IF store = "up"
           THEN /\ punches' = UpdateClockOut(punches, rc.pid, ev.ts)
                /\ applyCount' = [applyCount EXCEPT ![ev.id] = @ + 1]
                /\ rc' = [rc EXCEPT !.pc = "r_audit"]
           ELSE /\ rc' = RSkip(rc)
                /\ UNCHANGED <<punches, applyCount>>
    /\ UNCHANGED <<store, debounceSetting, entryVars, hostVars, queueFile, clock, hs, calls, crashes,
                   enqueuedIds, appliedIds, tickErrors>>

\* append_audit at the end of insert_punch / close_open_punch
RApplyAudit ==
    /\ rc.pc = "r_audit"
    /\ IF store = "up"
       THEN /\ rc' = RApplied(rc)
            /\ appliedIds' = appliedIds \cup {rc.snap[rc.i].id}
       ELSE /\ rc' = RSkip(rc)
            /\ appliedIds' = appliedIds
    /\ RFrame

\* end of the sweep: if applied_ids: remove_events(applied_ids)
RSweepEnd ==
    /\ rc.pc = "sweep"
    /\ rc.i > Len(rc.snap)
    /\ IF Len(rc.applied) = 0
       THEN rc' = IdleR
       ELSE rc' = [rc EXCEPT !.pc = "rm_read"]
    /\ UNCHANGED appliedIds
    /\ RFrame

\* remove_events: copy the retained lines of the log to the temp file, fsync
RRemoveCopy ==
    /\ rc.pc = "rm_read"
    /\ rc' = [rc EXCEPT !.pc = "rm_replace",
                !.tmp = remove_copy(queueFile, SeqToSet(rc.applied))]
    /\ UNCHANGED appliedIds
    /\ RFrame

\* remove_events raises (mkstemp or the temp write fails): the tick-level
\* except logs it, the temp file is unlinked, the log is untouched
RRemoveFail ==
    /\ rc.pc = "rm_read"
    /\ rc' = IdleR
    /\ tickErrors' = TRUE
    /\ UNCHANGED <<punches, store, debounceSetting, entryVars, hostVars, queueFile, clock, hs, calls,
                   crashes, applyCount, enqueuedIds, appliedIds>>

\* mutant: the log is reopened for writing (truncated) to be rewritten in
\* place
RRemoveReplaceInPlace ==
    /\ rc.pc = "rm_replace"
    /\ queueFile' = <<>>
    /\ rc' = [rc EXCEPT !.pc = "rm_write"]
    /\ UNCHANGED <<punches, store, debounceSetting, entryVars, hostVars, clock, hs, calls, crashes,
                   applyCount, enqueuedIds, appliedIds, tickErrors>>

\* remove_events: os.replace(tmp_path, src); then the interval wait
RRemoveReplace ==
    /\ rc.pc = "rm_replace"
    /\ queueFile' = rc.tmp
    /\ rc' = IdleR
    /\ UNCHANGED <<punches, store, debounceSetting, entryVars, hostVars, clock, hs, calls, crashes,
                   applyCount, enqueuedIds, appliedIds, tickErrors>>

\* ------------------------------------------------------------------ process
\* start_reconciler has not been called: there is no such thread
NoThread == [IdleR EXCEPT !.pc = "none"]

\* python -m punchpad_app [kiosk pin | kiosk run | kiosk web | report ...]
LaunchModes == {"default", "kiosk pin", "kiosk run", "kiosk web", "report"}

\* main() is past start_reconciler() and inside the command it was launched for
Launched(mode) == [mode |-> mode, pc |-> "main"]

\* main(): stop_event = start_reconciler(), whatever the command
MainStartReconciler ==
    /\ proc.pc = "boot"
    /\ proc' = [proc EXCEPT !.pc = "main"]
    /\ IF rc.pc = "none"
       THEN /\ rc' = IdleR
            /\ UNCHANGED rcOther
       ELSE /\ rcOther' = IdleR
            /\ UNCHANGED rc
    /\ UNCHANGED <<punches, store, debounceSetting, entryVars, queueFile, clock, hs,
                   calls, crashes, applyCount, enqueuedIds, appliedIds, tickErrors,
                   stopEvent, report>>

\* kiosk web: "Start reconciler idempotently": start_reconciler() creates and
\* starts a new thread on every call
WebStartReconciler ==
    /\ proc.pc = "main"
    /\ proc.mode = "kiosk web"
    /\ proc' = [proc EXCEPT !.pc = "serving"]
    /\ IF rc.pc = "none"
       THEN /\ rc' = IdleR
            /\ UNCHANGED rcOther
       ELSE /\ rcOther' = IdleR
            /\ UNCHANGED rc
    /\ UNCHANGED <<punches, store, debounceSetting, entryVars, queueFile, clock, hs,
                   calls, crashes, applyCount, enqueuedIds, appliedIds, tickErrors,
                   stopEvent, report>>

\* the interpreter switches from one Reconciler thread to the other
RSwitch ==
    /\ rcOther.pc # "none"
    /\ rc' = rcOther
    /\ rcOther' = rc
    /\ UNCHANGED <<punches, store, debounceSetting, entryVars, queueFile, clock, hs,
                   calls, crashes, applyCount, enqueuedIds, appliedIds, tickErrors,
                   proc, stopEvent, report>>

\* stop_event.set() by the holder of the event start_reconciler returned
SetStop ==
    /\ ~stopEvent
    /\ stopEvent' = TRUE
    /\ UNCHANGED <<punches, store, debounceSetting, entryVars, queueFile, clock, hs, rc,
                   calls, crashes, applyCount, enqueuedIds, appliedIds, tickErrors,
                   proc, rcOther, report>>

\* stop_event.wait(interval) returns at once, the while test fails, _run_loop
\* returns
RStop ==
    /\ rc.pc = "wait"
    /\ stopEvent
    /\ rc' = [IdleR EXCEPT !.pc = "stopped"]
    /\ UNCHANGED appliedIds
    /\ RFrame

\* ------------------------------------------------------------------ reports
\* timestamps are seconds since an epoch that is a UTC midnight; day d is
\* [d * DaySeconds, (d + 1) * DaySeconds)
DaySeconds == 86400
MaxReportDays == 2
ReportStep == 43200

ReportDays == 1 .. MaxReportDays + 1
ReportTimes ==
    {t \in DaySeconds .. (MaxReportDays + 1) * DaySeconds :
        (t - DaySeconds) % ReportStep = 0}

\* a --start / --end argument: YYYY-MM-DD, or an ISO timestamp
DateArg(d) == [kind |-> "date", day |-> d, secs |-> 0]
TimeArg(t) == [kind |-> "time", day |-> t \div DaySeconds, secs |-> t % DaySeconds]
ReportArgs == {DateArg(d) : d \in ReportDays} \cup {TimeArg(t) : t \in ReportTimes}

\* YYYY-MM-DD becomes 00:00:00Z of that day, a timestamp is normalised to UTC
to_utc_start_iso(a) ==
    IF a.kind = "date" THEN a.day * DaySeconds ELSE a.day * DaySeconds + a.secs

to_utc_end_iso(a) ==
    IF a.kind = "date" THEN a.day * DaySeconds ELSE a.day * DaySeconds + a.secs

utc_midnight(t) == (t \div DaySeconds) * DaySeconds

MinOf2(a, b) == IF a < b THEN a ELSE b
MaxOf2(a, b) == IF a > b THEN a ELSE b

RECURSIVE SumFn(_)
SumFn(f) ==
    IF DOMAIN f = {} THEN 0
    ELSE LET x == CHOOSE y \in DOMAIN f : TRUE
         IN  f[x] + SumFn([y \in DOMAIN f \ {x} |-> f[y]])

\* SELECT ... WHERE employee_id=? AND clock_in < e AND clock_out IS NOT NULL
\* AND clock_out > s
list_punches_between(P, emp, s, e) ==
    {i \in 1 .. Len(P) : /\ P[i].employee_id = emp
                         /\ P[i].clock_in < e
                         /\ P[i].clock_out # NULL
                         /\ P[i].clock_out > s}

\* the interval of row i clamped to [s, e)
Clamped(P, i, s, e) ==
    [start |-> MaxOf2(P[i].clock_in, s), end |-> MinOf2(P[i].clock_out, e)]

\* worked_intervals: the rows whose clamped interval is not empty
worked_intervals(P, emp, s, e) ==
    {i \in list_punches_between(P, emp, s, e) :
        Clamped(P, i, s, e).end > Clamped(P, i, s, e).start}

total_seconds_worked(P, emp, s, e) ==
    SumFn([i \in worked_intervals(P, emp, s, e) |->
              Max0(Clamped(P, i, s, e).end - Clamped(P, i, s, e).start)])

period_total(P, emp, start, end) ==
    total_seconds_worked(P, emp, to_utc_start_iso(start), to_utc_end_iso(end))

\* the seconds of an interval that the cursor loop of daily_totals adds to
\* the bucket of day d
SecondsOn(iv, d) ==
    Max0(MinOf2(iv.end, (d + 1) * DaySeconds) - MaxOf2(iv.start, d * DaySeconds))

daily_totals(P, emp, start, end) ==
    LET s == to_utc_start_iso(start)
        e == to_utc_end_iso(end)
        days == 0 .. MaxReportDays + 2
        rows == worked_intervals(P, emp, s, e)
        initial == {d \in days : d * DaySeconds >= utc_midnight(s) /\ d * DaySeconds < e}
        touched == {d \in days : \E i \in rows : SecondsOn(Clamped(P, i, s, e), d) > 0}
        filtered == {d \in initial \cup touched : d * DaySeconds < utc_midnight(e)}
    IN  [d \in filtered |-> SumFn([i \in rows |-> SecondsOn(Clamped(P, i, s, e), d)])]

\* no report command has run
NoReport == [emp |-> 0, start |-> DateArg(0), end |-> DateArg(0), daily |-> <<>>,
             total |-> 0, done |-> {}]

\* report <daily|period> --emp E --start S --end T: the flags are parsed
ReportParse(emp, start, end) ==
    /\ report = NoReport
    /\ report' = [NoReport EXCEPT !.emp = emp, !.start = start, !.end = end]
    /\ UNCHANGED <<punches, store, debounceSetting, entryVars, queueFile, clock, hs, rc,
                   calls, crashes, applyCount, enqueuedIds, appliedIds, tickErrors,
                   proc, rcOther, stopEvent>>

\* report daily: totals = daily_totals(emp_id, start, end)
ReportDaily ==
    /\ report.emp # 0
    /\ "daily" \notin report.done
    /\ report' = [report EXCEPT
                     !.daily = daily_totals(punches, report.emp, report.start, report.end),
                     !.done = @ \cup {"daily"}]
    /\ UNCHANGED <<punches, store, debounceSetting, entryVars, queueFile, clock, hs, rc,
                   calls, crashes, applyCount, enqueuedIds, appliedIds, tickErrors,
                   proc, rcOther, stopEvent>>

\* report period: secs = period_total(emp_id, start, end)
ReportPeriod ==
    /\ report.emp # 0
    /\ "period" \notin report.done
    /\ report' = [report EXCEPT
                     !.total = period_total(punches, report.emp, report.start, report.end),
                     !.done = @ \cup {"period"}]
    /\ UNCHANGED <<punches, store, debounceSetting, entryVars, queueFile, clock, hs, rc,
                   calls, crashes, applyCount, enqueuedIds, appliedIds, tickErrors,
                   proc, rcOther, stopEvent>>

\* ------------------------------------------------------------ Attempt Ledger
MaxAttempts == 5
MaxLockSteps == 3
LockStep == 250

DefaultWindow == 300
DefaultMaxAttempts == 5
DefaultLockoutMinutes == 10
SecondsPerMinute == 60

\* a settings row that is absent (get_setting returns None)
NoSetting == -1
NoUntil == -1

Sources == {"k1", "k2"}

\* int(get_setting(key) or default)
SettingInt(val, default) == IF val = NoSetting THEN default ELSE val

DefaultLockSettings ==
    [window |-> NoSetting, max_attempts |-> NoSetting, lockout |-> NoSetting]

PinAttempt(ts, source, success, employee_id, reason) ==
    [ts |-> ts, source |-> source, success |-> success,
     employee_id |-> employee_id, reason |-> reason]

\* mutant: the SELECT does not filter by source
FailedSinceAnySource(T, source, window_start) ==
    {i \in 1 .. Len(T) : T[i].success = 0 /\ T[i].ts >= window_start}

\* SELECT ts FROM pin_attempts WHERE source=? AND success=0 AND ts>=?
FailedSince(T, source, window_start) ==
    {i \in 1 .. Len(T) : T[i].source = source /\ T[i].success = 0
                           /\ T[i].ts >= window_start}

Unlocked == [locked |-> FALSE, until |-> NoUntil, error |-> FALSE]

check_pin_lockout(T, source, now, S) ==
    LET window_s == SettingInt(S.window, DefaultWindow)
        max_attempts == SettingInt(S.max_attempts, DefaultMaxAttempts)
        lockout_min == SettingInt(S.lockout, DefaultLockoutMinutes)
        rows == FailedSince(T, source, now - window_s)
    IN  IF Cardinality(rows) >= max_attempts
        THEN IF rows = {}
             THEN [locked |-> FALSE, until |-> NoUntil, error |-> TRUE]
             ELSE LET most_recent == MaxOf({T[i].ts : i \in rows})
                      locked_until == most_recent + lockout_min * SecondsPerMinute
                  IN  IF now < locked_until
                      THEN [locked |-> TRUE, until |-> locked_until, error |-> FALSE]
                      ELSE Unlocked
        ELSE Unlocked

\* record_pin_attempt: INSERT INTO pin_attempts
record_pin_attempt(T, source, now, success, employee_id, reason) ==
    Append(T, PinAttempt(now, source, IF success THEN 1 ELSE 0, employee_id, reason))

NoCheck == [source |-> "", now |-> 0, locked |-> FALSE, until |-> NoUntil,
            error |-> FALSE]

CheckResult(source, now, r) ==
    [source |-> source, now |-> now, locked |-> r.locked, until |-> r.until,
     error |-> r.error]

\* ---------------------------------------------------------- Credential Store
NoEmp == 0
DefaultIterations == 200000
MinIterations == 150000
Scheme == "pbkdf2_sha256"

Pins == {"1111", "2222", "0000"}

\* the PIN each employee was added with
PinOf == [e \in Employees |-> IF e = 1 THEN "1111" ELSE "2222"]

\* make_pin_hash: scheme$iterations$salt$digest; the digest stands for the
\* PIN it was derived from (with the stored salt)
make_pin_hash(pin) ==
    [scheme |-> Scheme, iterations |-> DefaultIterations, digest |-> pin]

\* verify_pin: _parse_stored rejects other schemes and low iteration counts,
\* then the digest of the supplied PIN is compared with the stored one
verify_pin(pin, stored) ==
    /\ stored.scheme = Scheme
    /\ stored.iterations >= MinIterations
    /\ make_pin_hash(pin).digest = stored.digest

StoredHash == [e \in Employees |-> make_pin_hash(PinOf[e])]

MinOf(S) == CHOOSE m \in S : \A x \in S : m <= x

\* SELECT id, pin_hash FROM employees WHERE active=1
VerifyRows(act) == {e \in Employees : act[e] = 1}

\* verify_employee_pin: the first row whose hash verifies, else None
verify_employee_pin(act, pin) ==
    LET m == {e \in VerifyRows(act) : verify_pin(pin, StoredHash[e])}
    IN  IF m = {} THEN NoEmp ELSE MinOf(m)

\* --------------------------------------------------------------- entry points
\* One PIN submission per terminal at a time.  kind "pin" is the CLI command
\* `kiosk pin`, "run" one iteration of the `kiosk run` loop, "web" one
\* POST /pin request.  Terminal t calls toggle_punch as handler t.
MaxSessions == 2

EntryKinds == {"pin", "run", "web"}

\* checks, lockedSeen, prompted, verified, recorded, rowId, toggled and
\* inactive are history of the submission in progress
IdleK(kind) ==
    [kind |-> kind, pc |-> "idle", source |-> "", now |-> 0, pin |-> "",
     emp |-> NoEmp, n |-> 0, checks |-> 0, lockedSeen |-> FALSE,
     prompted |-> "no", verified |-> FALSE, recorded |-> 0, rowId |-> 0,
     toggled |-> FALSE, inactive |-> {}]

KEnded == {"idle", "locked", "bad", "done", "raised"}

\* the locals of toggle_punch(conn, e, "kiosk", note, now_iso) at its entry
ToggleFrame(e, note, now, uuid) ==
    [IdleH EXCEPT !.pc = "t_open", !.emp = e, !.note = note, !.now = now,
                  !.uuid = uuid, !.allDown = TRUE]

PipelineFrame ==
    UNCHANGED <<punches, store, debounceSetting, queueFile, clock, rc, crashes,
                applyCount, enqueuedIds, appliedIds, tickErrors, hostVars>>

KFrame == PipelineFrame /\ UNCHANGED <<hs, calls, active, lockSettings, lastCheck, trail>>

\* an sqlite3 error is not caught by any entry point
KRaised(k) == [k EXCEPT !.pc = "raised"]

\* mutant: the locked branch does not short-circuit
AfterCheckIgnoresLock(k, r, next) ==
    [k EXCEPT !.pc = next, !.checks = k.checks + 1,
              !.lockedSeen = k.lockedSeen \/ r.locked]

\* if locked: lockout response, the submission ends; else go on
AfterCheck(k, r, next) ==
    IF r.error THEN KRaised(k)
    ELSE [k EXCEPT !.pc = IF r.locked THEN "locked" ELSE next,
                   !.checks = k.checks + 1,
                   !.lockedSeen = k.lockedSeen \/ r.locked]

\* mutant: toggle_punch is reached after a failed attempt was recorded, too
AfterRecordAlwaysToggles(k, row) ==
    [k EXCEPT !.pc = "toggle", !.recorded = k.recorded + 1, !.rowId = row]

\* after record_pin_attempt: "Invalid PIN" ends the submission, a success
\* goes on to toggle_punch
AfterRecord(k, row) ==
    [k EXCEPT !.pc = IF k.emp = NoEmp THEN "bad" ELSE "toggle",
              !.recorded = k.recorded + 1, !.rowId = row]

\* how many submissions the terminals of T have started
RECURSIVE SessionsStarted(_)
SessionsStarted(T) ==
    IF T = {} THEN 0
    ELSE LET t == CHOOSE x \in T : TRUE
         IN  ks[t].n + SessionsStarted(T \ {t})

\* a submission starts: now_iso is taken; the web request carries source
\* and pin in its form
KStart(t, src, pin) ==
    /\ ks[t].pc \in KEnded
    /\ hs[t].pc \in {"idle", "returned", "raised"}
    /\ SessionsStarted(Handlers) < MaxSessions
    /\ ks' = [ks EXCEPT ![t] =
                 [IdleK(ks[t].kind) EXCEPT
                     !.n = ks[t].n + 1, !.source = src, !.now = clock,
                     !.pin = IF ks[t].kind = "web" THEN pin ELSE "",
                     !.inactive = {e \in Employees : active[e] = 0},
                     !.pc = CASE ks[t].kind = "pin" -> "prompt"
                              [] ks[t].kind = "run" -> "check1"
                              [] OTHER -> "check"]]
    /\ UNCHANGED pinAttempts
    /\ KFrame

\* kiosk run: the lockout check before asking for the PIN
KCheckFirst(t) ==
    /\ ks[t].pc = "check1"
    /\ ks' = [ks EXCEPT ![t] =
                 IF store = "down" THEN KRaised(ks[t])
                 ELSE AfterCheck(ks[t],
                          check_pin_lockout(pinAttempts, ks[t].source, ks[t].now,
                                            lockSettings),
                          "prompt")]
    /\ UNCHANGED pinAttempts
    /\ KFrame

\* getpass / prompt_pin: the user types a PIN
KPrompt(t, pin) ==
    /\ ks[t].pc = "prompt"
    /\ ks' = [ks EXCEPT ![t] =
                 [ks[t] EXCEPT !.pc = "check", !.pin = pin,
                               !.prompted = IF ks[t].checks > 0 THEN "checked"
                                            ELSE "unchecked"]]
    /\ UNCHANGED pinAttempts
    /\ KFrame

\* check_pin_lockout once the PIN is in hand (kiosk run takes now_iso again)
KCheck(t) ==
    /\ ks[t].pc = "check"
    /\ LET k == IF ks[t].kind = "run" THEN [ks[t] EXCEPT !.now = clock] ELSE ks[t]
       IN  ks' = [ks EXCEPT ![t] =
                     IF store = "down" THEN KRaised(k)
                     ELSE AfterCheck(k,
                              check_pin_lockout(pinAttempts, k.source, k.now,
                                                lockSettings),
                              "verify")]
    /\ UNCHANGED pinAttempts
    /\ KFrame

\* emp_id = verify_employee_pin(conn, pin)
KVerify(t) ==
    /\ ks[t].pc = "verify"
    /\ ks' = [ks EXCEPT ![t] =
                 IF store = "down" THEN KRaised(ks[t])
                 ELSE [ks[t] EXCEPT !.pc = "record", !.verified = TRUE,
                                    !.emp = verify_employee_pin(active, ks[t].pin)]]
    /\ UNCHANGED pinAttempts
    /\ KFrame

\* record_pin_attempt: failure with no employee id, or success with emp_id
KRecord(t) ==
    /\ ks[t].pc = "record"
    /\ Len(pinAttempts) < MaxAttempts
    /\ IF store = "down"
       THEN /\ ks' = [ks EXCEPT ![t] = KRaised(ks[t])]
            /\ UNCHANGED pinAttempts
       ELSE /\ pinAttempts' =
                  record_pin_attempt(pinAttempts, ks[t].source, ks[t].now,
                      ks[t].emp # NoEmp, ks[t].emp,
                      IF ks[t].emp = NoEmp THEN "bad_pin" ELSE "None")
            /\ ks' = [ks EXCEPT ![t] = AfterRecord(ks[t], Len(pinAttempts) + 1)]
    /\ KFrame

\* res = toggle_punch(conn, emp_id, method="kiosk", note=None, now_iso=now_iso)
KToggle(t) ==
    /\ ks[t].pc = "toggle"
    /\ calls < MaxCalls
    /\ hs' = [hs EXCEPT ![t] = ToggleFrame(ks[t].emp, "None", ks[t].now, calls + 1)]
    /\ calls' = calls + 1
    /\ ks' = [ks EXCEPT ![t] = [ks[t] EXCEPT !.pc = "wait", !.toggled = TRUE]]
    /\ UNCHANGED <<pinAttempts, active, lockSettings, lastCheck, trail>>
    /\ PipelineFrame

\* toggle_punch is over: the banner is shown, or its exception ends the
\* submission
KResult(t) ==
    /\ ks[t].pc = "wait"
    /\ hs[t].pc \in {"returned", "raised"}
    /\ ks' = [ks EXCEPT ![t] = [ks[t] EXCEPT !.pc = IF hs[t].pc = "returned"
                                                     THEN "done" ELSE "raised"]]
    /\ UNCHANGED pinAttempts
    /\ KFrame

\* disable_employee: UPDATE employees SET active=0 WHERE id=?
DisableEmployee(e) ==
    /\ active[e] = 1
    /\ store = "up"
    /\ active' = [active EXCEPT ![e] = 0]
    /\ UNCHANGED <<pinAttempts, lockSettings, lastCheck, ks, trail, hs, calls>>
    /\ PipelineFrame

\* --------------------------------------------------------------- environment
\* the process is killed (or power is lost) and restarted: handlers and the
\* Reconciler lose their volatile state; a record being written by an
\* enqueue in progress may be left torn at the end of the log
Crash(torn) ==
    /\ crashes < MaxCrashes
    /\ torn => \E p \in Handlers : hs[p].pc = "enq"
    /\ crashes' = crashes + 1
    /\ hs' = [p \in Handlers |-> IdleH]
    /\ rc' = IdleR
    /\ queueFile' = IF torn THEN Append(queueFile, Junk) ELSE queueFile
    /\ UNCHANGED <<punches, store, debounceSetting, entryVars, hostVars, clock, calls, applyCount,
                   enqueuedIds, appliedIds, tickErrors>>

Tick ==
    /\ clock < MaxTime
    /\ clock' = clock + 1
    /\ UNCHANGED <<punches, store, debounceSetting, entryVars, hostVars, queueFile, hs, rc, calls,
                   crashes, applyCount, enqueuedIds, appliedIds, tickErrors>>

\* the SQLite file becomes unavailable (locked past busy_timeout, I/O error)
\* or healthy again
StoreChange(m) ==
    /\ m # store
    /\ store' = m
    /\ UNCHANGED <<punches, debounceSetting, entryVars, hostVars, queueFile, clock, hs, rc, calls,
                   crashes, applyCount, enqueuedIds, appliedIds, tickErrors>>

\* ------------------------------------------------------------- specification
\* the process was launched without a command and main() has started the
\* Reconciler; nobody has set the stop event; no report was asked for
HostInit ==
    /\ proc = Launched("default")
    /\ rcOther = NoThread
    /\ stopEvent = FALSE
    /\ report = NoReport

\* no PIN submitted yet, every employee active, no settings row stored
EntryInit ==
    /\ pinAttempts = <<>>
    /\ active = [e \in Employees |-> 1]
    /\ lockSettings = DefaultLockSettings
    /\ lastCheck = NoCheck
    /\ ks = [t \in Handlers |-> IdleK("run")]
    /\ trail = <<>>

Init ==
    /\ EntryInit
    /\ punches = <<>>
    /\ store = "up"
    /\ debounceSetting = "None"
    /\ queueFile = <<>>
    /\ clock = 1
    /\ hs = [p \in Handlers |-> IdleH]
    /\ rc = IdleR
    /\ calls = 0
    /\ crashes = 0
    /\ applyCount = [i \in 1 .. MaxCalls |-> 0]
    /\ enqueuedIds = {}
    /\ appliedIds = {}
    /\ tickErrors = FALSE
    /\ HostInit

HandlerNext(p) ==
    \/ \E e \in Employees, note \in CallNotes : Call(p, e, note)
    \/ ToggleSelectOpen(p)
    \/ ToggleDebounce(p)
    \/ ClockInGetOpen(p)
    \/ InsertSelect(p)
    \/ InsertPunch(p)
    \/ CloseSelect(p)
    \/ CloseUpdate(p)
    \/ HandlerAudit(p)
    \/ Enqueue(p)
    \/ \E mode \in EnqueueFailModes : EnqueueFail(p, mode)

ReconcilerNext ==
    \/ RSnapshot
    \/ RApplySelect
    \/ RApplyInsert
    \/ RApplyUpdate
    \/ RApplyAudit
    \/ RSweepEnd
    \/ RRemoveCopy
    \/ RRemoveFail
    \/ RRemoveReplace

Next ==
    \/ \E p \in Handlers : HandlerNext(p)
    \/ ReconcilerNext
    \/ \E torn \in BOOLEAN : Crash(torn)
    \/ Tick
    \/ \E m \in StoreModes : StoreChange(m)

Spec == Init /\ [][Next]_vars

TypeOK ==
    /\ store \in StoreModes
    /\ clock \in 1 .. MaxTime
    /\ calls \in 0 .. MaxCalls
    /\ \A p \in Handlers : hs[p].pc \in {"idle", "t_open", "t_deb",
           "ci_get", "ci_sel", "ci_ins", "co_sel", "co_upd", "audit", "enq",
           "returned", "raised"}

\* ------------------------------------------------ queue-only specification
\* remove_events applied to arbitrary log contents and id sets
MaxLines == 3

RECURSIVE SetToSeq(_)
SetToSeq(S) ==
    IF S = {} THEN <<>>
    ELSE LET x == CHOOSE y \in S : TRUE IN <<x>> \o SetToSeq(S \ {x})

RECURSIVE Flatten(_, _)
Flatten(ls, i) == IF i > Len(ls) THEN <<>> ELSE ls[i] \o Flatten(ls, i + 1)

\* the log without the newline of its last line
DropLastNewline(f) == SubSeq(f, 1, Len(f) - 1)

QueueEventIds == (1 .. MaxCalls) \cup {FalsyId}

SampleEvents ==
    {Event(i, "clock_in", 1, 1, "None", "kiosk") : i \in QueueEventIds}
        \cup {Event(i, "clock_out", 1, 1, "late", "kiosk") : i \in QueueEventIds}

\* lines iter_events skips: a torn fragment, a JSON value that is no object,
\* an object without id, a blank line
CorruptLines ==
    {<<Junk, NL>>, <<Chunk("jsonval", NoId, "", 0, 0, "", ""), NL>>,
     <<Chunk("json", NoId, "clock_in", 1, 1, "null", "kiosk"), NL>>, <<NL>>}

SampleLines == {enqueue_line(ev) : ev \in SampleEvents} \cup CorruptLines

BaseInit(file, tbl, r) ==
    /\ EntryInit
    /\ punches = tbl
    /\ store = "up"
    /\ debounceSetting = "None"
    /\ queueFile = file
    /\ clock = MaxTime
    /\ hs = [p \in Handlers |-> IdleH]
    /\ rc = r
    /\ calls = 0
    /\ crashes = 0
    /\ applyCount = [i \in 1 .. MaxCalls |-> 0]
    /\ enqueuedIds = {}
    /\ appliedIds = {}
    /\ tickErrors = FALSE
    /\ HostInit

InitQueue ==
    \E n \in 1 .. MaxLines :
      \E ls \in [1 .. n -> SampleLines], tailNl \in BOOLEAN :
        LET full == Flatten(ls, 1)
            file == IF tailNl THEN full ELSE DropLastNewline(full)
        IN  \E S \in SUBSET QueueIds(file) :
              /\ S # {}
              /\ BaseInit(file, <<>>, [IdleR EXCEPT !.pc = "rm_read",
                                                    !.applied = SetToSeq(S)])

NextQueue ==
    \/ RRemoveCopy
    \/ RRemoveReplace

SpecQueue == InitQueue /\ [][NextQueue]_vars

\* ------------------------------------------- one-cycle Reconciler scenario
\* the log holds one valid clock_in event and one corrupt line, the employee
\* has no open punch, the store is healthy and only the Reconciler runs
InitRec ==
    \E e \in Employees, ts \in 1 .. MaxTime, note \in Notes,
       bad \in CorruptLines, validFirst \in BOOLEAN, tailNl \in BOOLEAN,
       other \in BOOLEAN, closed \in BOOLEAN :
        LET good == enqueue_line(Event(1, "clock_in", e, ts, note, "kiosk"))
            full == IF validFirst THEN good \o bad ELSE bad \o good
            file == IF tailNl THEN full ELSE DropLastNewline(full)
            tbl == (IF closed THEN <<[NewPunch(e, 1, "kiosk", "None") EXCEPT !.clock_out = 1]>>
                    ELSE <<>>)
                   \o (IF other THEN <<NewPunch(CHOOSE x \in Employees : x # e, 1, "kiosk", "None")>>
                       ELSE <<>>)
        IN  /\ Len(SplitLines(file)) = 2
            /\ Len(iter_events(file)) = 1
            /\ BaseInit(file, tbl, IdleR)

NextRec ==
    \/ RSnapshot
    \/ RApplySelect
    \/ RApplyInsert
    \/ RApplyAudit
    \/ RSweepEnd
    \/ RRemoveCopy
    \/ RRemoveReplace

SpecRec == InitRec /\ [][NextRec]_vars

\* ------------------------------------------- sequential kiosk specification
\* one caller invokes toggle_punch again and again (no Reconciler, no second
\* handler); the wall clock advances between the steps
MaxKioskCalls == 3
MaxKioskSteps == 2
KioskStep == 5

KioskCaller == 1

\* history entry of one call: hadOpen says whether the employee had an open
\* punch when the call was made
TrailEntry(e, now, hadOpen) ==
    [emp |-> e, now |-> now, hadOpen |-> hadOpen, status |-> "", action |-> "",
     retry |-> 0]

\* the caller takes now_iso and calls toggle_punch
KioskCall(p, e) ==
    /\ hs[p].pc = "idle"
    /\ calls < MaxKioskCalls
    /\ calls' = calls + 1
    /\ hs' = [hs EXCEPT ![p] = ToggleFrame(e, "None", clock, calls + 1)]
    /\ trail' = Append(trail, TrailEntry(e, clock, OpenRows(punches, e) # {}))
    /\ UNCHANGED <<pinAttempts, active, lockSettings, lastCheck, ks>>
    /\ PipelineFrame

\* the caller reads status and action of the result (or gets the exception)
KioskResult(p) ==
    /\ hs[p].pc \in {"returned", "raised"}
    /\ trail' = [trail EXCEPT ![Len(trail)] =
                    IF hs[p].pc = "raised"
                    THEN [@ EXCEPT !.status = "raised"]
                    ELSE [@ EXCEPT !.status = hs[p].res.status,
                                   !.action = hs[p].res.action,
                                   !.retry = IF hs[p].res.status = "blocked"
                                             THEN hs[p].res.retry_after_seconds
                                             ELSE 0]]
    /\ hs' = [hs EXCEPT ![p] = IdleH]
    /\ UNCHANGED <<pinAttempts, active, lockSettings, lastCheck, ks, calls>>
    /\ PipelineFrame

\* KioskStep seconds pass
Advance ==
    /\ clock + KioskStep <= 1 + MaxKioskSteps * KioskStep
    /\ clock' = clock + KioskStep
    /\ UNCHANGED <<punches, store, debounceSetting, entryVars, hostVars, queueFile, hs, rc,
                   calls, crashes, applyCount, enqueuedIds, appliedIds, tickErrors>>

NextKiosk ==
    \/ \E e \in Employees : KioskCall(KioskCaller, e)
    \/ ToggleSelectOpen(KioskCaller)
    \/ ToggleDebounce(KioskCaller)
    \/ ClockInGetOpen(KioskCaller)
    \/ InsertSelect(KioskCaller)
    \/ InsertPunch(KioskCaller)
    \/ CloseSelect(KioskCaller)
    \/ CloseUpdate(KioskCaller)
    \/ HandlerAudit(KioskCaller)
    \/ Enqueue(KioskCaller)
    \/ KioskResult(KioskCaller)
    \/ Advance
    \/ \E m \in StoreModes : StoreChange(m)

\* the debounce setting is absent (30 s) or holds a window of 1 s
InitKiosk ==
    \E d \in DebounceSettings :
        /\ EntryInit
        /\ punches = <<>>
        /\ store = "up"
        /\ debounceSetting = d
        /\ queueFile = <<>>
        /\ clock = 1
        /\ hs = [p \in Handlers |-> IdleH]
        /\ rc = IdleR
        /\ calls = 0
        /\ crashes = 0
        /\ applyCount = [i \in 1 .. MaxCalls |-> 0]
        /\ enqueuedIds = {}
        /\ appliedIds = {}
        /\ tickErrors = FALSE
        /\ HostInit

SpecKiosk == InitKiosk /\ [][NextKiosk]_vars

\* ------------------------------------------------ Attempt Ledger specification
\* attempts of two sources are recorded and check_pin_lockout is evaluated
\* while the clock advances in steps of LockStep seconds
LockSettingsChoices ==
    {DefaultLockSettings,
     [window |-> NoSetting, max_attempts |-> 2, lockout |-> NoSetting],
     [window |-> 2 * LockStep, max_attempts |-> 1, lockout |-> 1]}

\* record_pin_attempt(conn, source, now_iso, success, emp_id | None, reason)
LRecord(src, success) ==
    /\ Len(pinAttempts) < MaxAttempts
    /\ pinAttempts' = record_pin_attempt(pinAttempts, src, clock, success,
                          IF success THEN 1 ELSE NoEmp,
                          IF success THEN "None" ELSE "bad_pin")
    /\ lastCheck' = NoCheck
    /\ UNCHANGED <<active, lockSettings, ks, trail, hs, calls>>
    /\ PipelineFrame

\* locked, until = check_pin_lockout(conn, source, now_iso)
LCheck(src) ==
    /\ lastCheck' = CheckResult(src, clock,
                        check_pin_lockout(pinAttempts, src, clock, lockSettings))
    /\ UNCHANGED <<pinAttempts, active, lockSettings, ks, trail, hs, calls>>
    /\ PipelineFrame

\* LockStep seconds pass
LAdvance ==
    /\ clock + LockStep <= MaxLockSteps * LockStep
    /\ clock' = clock + LockStep
    /\ UNCHANGED <<punches, store, debounceSetting, entryVars, hostVars, queueFile, hs, rc,
                   calls, crashes, applyCount, enqueuedIds, appliedIds, tickErrors>>

InitLockout ==
    \E S \in LockSettingsChoices :
        /\ pinAttempts = <<>>
        /\ active = [e \in Employees |-> 1]
        /\ lockSettings = S
        /\ lastCheck = NoCheck
        /\ ks = [t \in Handlers |-> IdleK("run")]
        /\ trail = <<>>
        /\ punches = <<>>
        /\ store = "up"
        /\ debounceSetting = "None"
        /\ queueFile = <<>>
        /\ clock = 0
        /\ hs = [p \in Handlers |-> IdleH]
        /\ rc = IdleR
        /\ calls = 0
        /\ crashes = 0
        /\ applyCount = [i \in 1 .. MaxCalls |-> 0]
        /\ enqueuedIds = {}
        /\ appliedIds = {}
        /\ tickErrors = FALSE
        /\ HostInit

NextLockout ==
    \/ \E src \in Sources, success \in BOOLEAN : LRecord(src, success)
    \/ \E src \in Sources : LCheck(src)
    \/ LAdvance

SpecLockout == InitLockout /\ [][NextLockout]_vars

\* `kiosk pin` takes now_iso before it asks for the PIN and calls
\* check_pin_lockout afterwards: the check runs with an instant now that
\* lies LockStep seconds in the past, other terminals having recorded
\* attempts since
LCheckLate(src) ==
    /\ clock >= LockStep
    /\ lastCheck' = CheckResult(src, clock - LockStep,
                        check_pin_lockout(pinAttempts, src, clock - LockStep,
                                          lockSettings))
    /\ UNCHANGED <<pinAttempts, active, lockSettings, ks, trail, hs, calls>>
    /\ PipelineFrame

NextLockoutLate ==
    \/ NextLockout
    \/ \E src \in Sources : LCheckLate(src)

SpecLockoutLate == InitLockout /\ [][NextLockoutLate]_vars

\* --------------------------------------------------- PIN pipeline specification
\* two terminals, each one of the three entry points, submit PINs; the
\* settings row pin_max_attempts is 1, so one failed attempt locks a source; an administrator may disable employees
\* and the store may fail at any statement
EntryLockSettings ==
    {[window |-> NoSetting, max_attempts |-> 1, lockout |-> NoSetting]}

\* each terminal is one of the entry points
EntryTerminals == [Handlers -> EntryKinds]

\* every terminal of one host reports the same source
EntrySources == {"k1"}

InitEntry ==
    \E kinds \in EntryTerminals, S \in EntryLockSettings :
        /\ pinAttempts = <<>>
        /\ active = [e \in Employees |-> 1]
        /\ lockSettings = S
        /\ lastCheck = NoCheck
        /\ ks = [t \in Handlers |-> IdleK(kinds[t])]
        /\ trail = <<>>
        /\ punches = <<>>
        /\ store = "up"
        /\ debounceSetting = "None"
        /\ queueFile = <<>>
        /\ clock = 1
        /\ hs = [p \in Handlers |-> IdleH]
        /\ rc = IdleR
        /\ calls = 0
        /\ crashes = 0
        /\ applyCount = [i \in 1 .. MaxCalls |-> 0]
        /\ enqueuedIds = {}
        /\ appliedIds = {}
        /\ tickErrors = FALSE
        /\ HostInit

EntryNext(t) ==
    \/ \E src \in EntrySources, pin \in Pins : KStart(t, src, pin)
    \/ KCheckFirst(t)
    \/ \E pin \in Pins : KPrompt(t, pin)
    \/ KCheck(t)
    \/ KVerify(t)
    \/ KRecord(t)
    \/ KToggle(t)
    \/ KResult(t)
    \/ ToggleSelectOpen(t)
    \/ ToggleDebounce(t)
    \/ ClockInGetOpen(t)
    \/ InsertSelect(t)
    \/ InsertPunch(t)
    \/ CloseSelect(t)
    \/ CloseUpdate(t)
    \/ HandlerAudit(t)
    \/ Enqueue(t)

NextEntry ==
    \/ \E t \in Handlers : EntryNext(t)
    \/ \E e \in Employees : DisableEmployee(e)
    \/ \E m \in StoreModes : StoreChange(m)

SpecEntry == InitEntry /\ [][NextEntry]_vars

\* ------------------------------------------------------ launch specification
\* a process is launched in one of its modes over a log that holds queued
\* events (of known and unknown kind) and a small punches table; only its
\* Reconciler threads run
MaxDrain == 2

DrainKinds == {"clock_in", "clock_out", "bogus"}

DrainEvent(id) ==
    {Event(id, kind, e, ts, "None", "kiosk") :
        kind \in DrainKinds, e \in Employees, ts \in 1 .. MaxTime}

\* logs of 1 .. MaxDrain complete lines, the event of line i has id i
DrainFiles ==
    UNION {{Flatten([i \in 1 .. n |-> enqueue_line(evs[i])], 1) :
               evs \in {f \in [1 .. n -> UNION {DrainEvent(i) : i \in 1 .. n}] :
                           \A i \in 1 .. n : f[i].id = i}} :
           n \in 1 .. MaxDrain}

\* no punch, one open punch, or one closed punch
DrainTables ==
    {<<>>}
        \cup {<<NewPunch(e, 1, "kiosk", "None")>> : e \in Employees}
        \cup {<<[NewPunch(e, 1, "kiosk", "None") EXCEPT !.clock_out = 1]>> : e \in Employees}

DrainInit(file, tbl, r, p) ==
    /\ EntryInit
    /\ punches = tbl
    /\ store = "up"
    /\ debounceSetting = "None"
    /\ queueFile = file
    /\ clock = MaxTime
    /\ hs = [h \in Handlers |-> IdleH]
    /\ rc = r
    /\ calls = 0
    /\ crashes = 0
    /\ applyCount = [i \in 1 .. MaxCalls |-> 0]
    /\ enqueuedIds = {}
    /\ appliedIds = {}
    /\ tickErrors = FALSE
    /\ proc = p
    /\ rcOther = NoThread
    /\ stopEvent = FALSE
    /\ report = NoReport

InitLaunch ==
    \E mode \in LaunchModes, file \in DrainFiles, tbl \in DrainTables :
        DrainInit(file, tbl, NoThread, [mode |-> mode, pc |-> "boot"])

NextLaunch ==
    \/ MainStartReconciler
    \/ WebStartReconciler
    \/ RSwitch
    \/ RSnapshot
    \/ RApplySelect
    \/ RApplyInsert
    \/ RApplyUpdate
    \/ RApplyAudit
    \/ RSweepEnd
    \/ RRemoveCopy
    \/ RRemoveReplace

SpecLaunch == InitLaunch /\ [][NextLaunch]_vars

\* ------------------------------------------------------ report specification
\* the report command is run, with any arguments, over tables of closed and
\* open punches whose timestamps lie on a grid of ReportStep seconds
MaxReportRows == 2

ReportRows ==
    {[NewPunch(e, ci, "kiosk", "None") EXCEPT !.clock_out = co] :
        e \in Employees, ci \in ReportTimes, co \in ReportTimes \cup {NULL}}

ReportTables ==
    UNION {{tbl \in [1 .. n -> ReportRows] :
               \A i \in 1 .. n : tbl[i].clock_out = NULL \/ tbl[i].clock_out > tbl[i].clock_in} :
           n \in 0 .. MaxReportRows}

InitReport ==
    \E tbl \in ReportTables :
        DrainInit(<<>>, tbl, IdleR, Launched("report"))

NextReport ==
    \/ \E emp \in Employees, start \in ReportArgs, end \in ReportArgs :
           ReportParse(emp, start, end)
    \/ ReportDaily
    \/ ReportPeriod

SpecReport == InitReport /\ [][NextReport]_vars

\* ------------------------------------------------------- drain specification
\* the Reconciler alone drains a log of queued events while the store comes
\* and goes, remove_events may fail, and the stop event may be set
InitDrain ==
    \E file \in DrainFiles, tbl \in DrainTables :
        DrainInit(file, tbl, IdleR, Launched("default"))

DrainCycle ==
    \/ RSnapshot
    \/ RApplySelect
    \/ RApplyInsert
    \/ RApplyUpdate
    \/ RApplyAudit
    \/ RSweepEnd
    \/ RRemoveCopy
    \/ RRemoveReplace
    \/ RStop

NextDrain ==
    \/ DrainCycle
    \/ RRemoveFail
    \/ SetStop
    \/ \E m \in StoreModes : StoreChange(m)

SpecDrain == InitDrain /\ [][NextDrain]_vars

\* the store becomes unavailable or healthy again while the loop waits
StoreChangeBetweenCycles(m) ==
    /\ rc.pc \in {"wait", "stopped"}
    /\ StoreChange(m)

\* the same without failures of remove_events and with a store that changes
\* only between cycles, the Reconciler thread being scheduled again and again
NextDrainFair ==
    \/ DrainCycle
    \/ SetStop
    \/ \E m \in StoreModes : StoreChangeBetweenCycles(m)

SpecDrainFair == InitDrain /\ [][NextDrainFair]_vars /\ WF_vars(DrainCycle)

\* ------------------------------------------------- late-event specification
\* the pipeline starts with one event of an earlier call still queued: a
\* clock_in of employee 1 that could not be written, or a clock_out of
\* employee 1 whose punch is still open; one foreground caller, the
\* Reconciler, the clock and the store then run as in Spec, without crashes
EarlierId == MaxCalls + 1

LateStarts ==
    {[file |-> enqueue_line(Event(EarlierId, "clock_in", 1, 1, "None", "kiosk")),
      tbl |-> <<>>],
     [file |-> enqueue_line(Event(EarlierId, "clock_out", 1, 1, "None", "kiosk")),
      tbl |-> <<NewPunch(1, 1, "kiosk", "None")>>]}

InitLate ==
    \E st \in LateStarts :
        /\ EntryInit
        /\ HostInit
        /\ punches = st.tbl
        /\ store = "up"
        /\ debounceSetting = "None"
        /\ queueFile = st.file
        /\ clock = 1
        /\ hs = [p \in Handlers |-> IdleH]
        /\ rc = IdleR
        /\ calls = 0
        /\ crashes = 0
        /\ applyCount = [i \in 1 .. EarlierId |-> 0]
        /\ enqueuedIds = {EarlierId}
        /\ appliedIds = {}
        /\ tickErrors = FALSE

NextLate ==
    \/ HandlerNext(KioskCaller)
    \/ ReconcilerNext
    \/ Tick
    \/ \E m \in StoreModes : StoreChange(m)

SpecLate == InitLate /\ [][NextLate]_vars

\* ---------------------------------------------------------- log specification
\* iter_events and remove_events over arbitrary log contents (event lines,
\* corrupt lines, a last line with or without newline), with a process
\* crash at any step: the thread calls iter_events (S empty) or is about to
\* call remove_events(S) for the ids S it has applied
InitLog ==
    \E n \in 1 .. MaxLines :
      \E ls \in [1 .. n -> SampleLines], tailNl \in BOOLEAN :
        LET full == Flatten(ls, 1)
            file == IF tailNl THEN full ELSE DropLastNewline(full)
        IN  \E S \in SUBSET (QueueIds(file) \ {FalsyId}) :
              /\ EntryInit
              /\ HostInit
              /\ punches = <<>>
              /\ store = "up"
              /\ debounceSetting = "None"
              /\ queueFile = file
              /\ clock = MaxTime
              /\ hs = [p \in Handlers |-> IdleH]
              /\ rc = IF S = {} THEN IdleR
                       ELSE [IdleR EXCEPT !.pc = "rm_read", !.applied = SetToSeq(S)]
              /\ calls = 0
              /\ crashes = 0
              /\ applyCount = [i \in 1 .. MaxCalls |-> 0]
              /\ enqueuedIds = {}
              /\ appliedIds = S
              /\ tickErrors = FALSE

NextLog ==
    \/ RSnapshot
    \/ RRemoveCopy
    \/ RRemoveFail
    \/ RRemoveReplace
    \/ Crash(FALSE)

SpecLog == InitLog /\ [][NextLog]_vars

\* ----------------------------------------------------- debounce specification
\* should_block_duplicate applied, inside toggle_punch, to every combination
\* of a small punches table, a desired action, a debounce setting and an
\* instant now around the last action (LastActionAt) and around the end of
\* the window
LastActionAt == 40

DebounceDeltas ==
    {-1, 0, 1, DefaultDebounce - 1, DefaultDebounce, DefaultDebounce + 1}

\* employee 1 has no punch, an open punch, a closed punch, or a closed
\* punch above an older open one
DebounceTables ==
    LET open == NewPunch(1, LastActionAt, "kiosk", "None")
        closed == [NewPunch(1, 1, "kiosk", "None") EXCEPT !.clock_out = LastActionAt]
    IN  {<<>>, <<open>>, <<closed>>, <<NewPunch(1, 1, "kiosk", "None"), closed>>,
         <<NewPunch(2, LastActionAt, "kiosk", "None")>>}

InitDebounce ==
    \E tbl \in DebounceTables, action \in {"in", "out"},
       d \in DebounceDeltas, setting \in {"None", "1", "0"} :
        /\ EntryInit
        /\ HostInit
        /\ punches = tbl
        /\ store = "up"
        /\ debounceSetting = setting
        /\ queueFile = <<>>
        /\ clock = LastActionAt + d
        /\ hs = [p \in Handlers |->
                   IF p = KioskCaller
                   THEN [IdleH EXCEPT !.pc = "t_deb", !.emp = 1, !.action = action,
                                      !.now = LastActionAt + d, !.uuid = 1]
                   ELSE IdleH]
        /\ rc = IdleR
        /\ calls = 1
        /\ crashes = 0
        /\ applyCount = [i \in 1 .. MaxCalls |-> 0]
        /\ enqueuedIds = {}
        /\ appliedIds = {}
        /\ tickErrors = FALSE

NextDebounce == ToggleDebounce(KioskCaller)

SpecDebounce == InitDebounce /\ [][NextDebounce]_vars

\* ------------------------------------------------------------------- claims
\* C1: in every reachable state each employee has at most one punch whose
\* clock-out is null
C1_AtMostOneOpenPunch ==
    \A e \in Employees : Cardinality(OpenRows(punches, e)) <= 1

\* C2: no single queued event causes more than one Punch Store mutation by
\* the Reconciler (one inserted punch or one clock-out update)
C2_ReconciledExactlyOnce ==
    \A id \in DOMAIN applyCount : applyCount[id] <= 1

\* C3: an event whose enqueue returned and that iterate yields is, after any
\* step, still yielded by iterate unless the Reconciler has applied it
C3_EnqueuedEventStays ==
    [][\A id \in enqueuedIds \cap QueueIds(queueFile) :
           id \in QueueIds(queueFile') \/ id \in appliedIds']_vars

EnqueueReturns(p) == hs[p].pc = "enq" /\ hs'[p].pc = "returned"

\* C4: when enqueue(event) returns, iterate yields that event with every
\* field equal, and a crash and restart loses no event enqueue returned for
C4_EnqueueSurvivesCrash ==
    [][/\ \A p \in Handlers : EnqueueReturns(p) =>
              QueuedEvent(hs[p]) \in SeqToSet(iter_events(queueFile'))
       /\ crashes' # crashes =>
              \A ev \in SeqToSet(iter_events(queueFile)) :
                  ev.id \in enqueuedIds => ev \in SeqToSet(iter_events(queueFile'))]_vars

\* C7: when the direct write of a non-blocked toggle_punch failed and the
\* call returns queued, it has appended exactly one QueuedEvent with a fresh
\* id and the attempt's kind, employee, timestamp, method and note, it has
\* not changed the Punch Store, and the result carries that event id
C7_QueuedFallback ==
    [][\A p \in Handlers : EnqueueReturns(p) =>
           /\ hs[p].uuid \notin QueueIds(queueFile)
           /\ iter_events(queueFile') = Append(iter_events(queueFile), QueuedEvent(hs[p]))
           /\ ~hs[p].wrote
           /\ punches' = punches
           /\ hs'[p].res.status = "queued"
           /\ hs'[p].res.event_id = hs[p].uuid]_vars

\* C8: a toggle_punch call during which the Punch Store was unavailable at
\* every step, and whose enqueue did not fail, does not raise: it returns
\* status queued and its event has been enqueued
C8_StoreDownFallsBack ==
    \A p \in Handlers :
        (hs[p].pc \in {"returned", "raised"} /\ hs[p].allDown /\ hs[p].exc # "OSError")
            => /\ hs[p].pc = "returned"
               /\ hs[p].res.status = "queued"
               /\ hs[p].uuid \in enqueuedIds

\* C9: when the direct write failed and enqueue failed too, the call raises
\* and neither the Punch Store nor the queue has gained a record for it
C9_EnqueueFailurePropagates ==
    \A p \in Handlers :
        hs[p].exc = "OSError"
            => /\ hs[p].pc = "raised"
               /\ ~hs[p].wrote
               /\ hs[p].uuid \notin QueueIds(queueFile)

\* only handler p has ever run and the Reconciler has changed nothing
OnlyCaller(p) ==
    /\ crashes = 0
    /\ \A q \in Handlers \ {p} : hs[q].pc = "idle"
    /\ \A id \in DOMAIN applyCount : applyCount[id] = 0

RECURSIVE KeepNotIn(_, _, _)
KeepNotIn(evs, i, ids) ==
    IF i > Len(evs) THEN <<>>
    ELSE IF evs[i].id \in ids THEN KeepNotIn(evs, i + 1, ids)
         ELSE <<evs[i]>> \o KeepNotIn(evs, i + 1, ids)

RemoveCompletes == rc.pc = "rm_replace" /\ rc'.pc = "wait"

CycleEnds == rc.pc # "wait" /\ rc'.pc = "wait"

\* C6: a Reconciler cycle over a log holding one valid clock_in event (for
\* an employee without open punch) and one corrupt line ends with an open
\* punch of that employee carrying the event's timestamp, the event absent
\* from the log, and no error caught by the tick
C6_CycleSkipsCorruptLine ==
    [][CycleEnds =>
           /\ ~tickErrors'
           /\ \A ev \in SeqToSet(rc.snap) :
                  /\ \E i \in OpenRows(punches', ev.employee_id) :
                         /\ punches'[i].clock_in = ev.ts
                         /\ punches'[i].note = ev.note
                  /\ ev.id \notin QueueIds(queueFile')
           /\ QueueIds(queueFile') = {}]_vars

\* C6 witness: the cycle is over, the event was applied, its punch is open,
\* and the log still holds the corrupt line and nothing else
C6_Witness ==
    /\ rc.pc = "wait"
    /\ appliedIds = {1}
    /\ \E e \in Employees : \E i \in OpenRows(punches, e) : applyCount[1] = 1
    /\ Len(queueFile) > 0
    /\ iter_events(queueFile) = <<>>

\* trail entries i - 1 and i are consecutive calls for one employee and call
\* i has returned a result
NextCallReturned(i) ==
    /\ i > 1
    /\ trail[i].emp = trail[i - 1].emp
    /\ trail[i].status \in {"ok", "queued", "blocked"}

\* calls i - 2, i - 1, i of the scenario: ok/in at T0, ok/out KioskStep (5 s)
\* later, and a third call another 5 s later that the store served (it
\* neither raised nor fell back to the queue)
DebounceScenario(i) ==
    /\ i > 2
    /\ debounceSetting = "None"
    /\ trail[i - 2].emp = trail[i].emp /\ trail[i - 1].emp = trail[i].emp
    /\ trail[i - 2].status = "ok" /\ trail[i - 2].action = "in"
    /\ trail[i - 1].status = "ok" /\ trail[i - 1].action = "out"
    /\ trail[i - 1].now = trail[i - 2].now + KioskStep
    /\ trail[i].now = trail[i - 1].now + KioskStep
    /\ trail[i].status \in {"ok", "blocked"}

\* C11: debounce 30 s, healthy store: after ok/in at T0 and ok/out at T0+5 s
\* the call at T0+10 s returns blocked with action in and
\* retry_after_seconds 30
C11_ThirdCallBlocked ==
    \A i \in 1 .. Len(trail) :
        (DebounceScenario(i) /\ hs[KioskCaller].pc = "idle")
            => /\ trail[i].status = "blocked"
               /\ trail[i].action = "in"
               /\ trail[i].retry = DefaultDebounce

\* C11 as amended: in that scenario the call at T0+10 s is not blocked (the
\* last action, out, differs from the desired action, in): it returns ok
\* with action in and opens a punch at its timestamp
C11_ThirdCallClocksIn ==
    \A i \in 1 .. Len(trail) :
        (DebounceScenario(i) /\ i = Len(trail) /\ hs[KioskCaller].pc = "idle")
            => /\ trail[i].status = "ok"
               /\ trail[i].action = "in"
               /\ \E r \in OpenRows(punches, trail[i].emp) :
                      punches[r].clock_in >= trail[i].now

\* C11 witness: the three calls of the scenario have returned
C11_Witness ==
    /\ Len(trail) = 3
    /\ hs[KioskCaller].pc = "idle"
    /\ DebounceScenario(3)
    /\ store = "up"

\* C12: a call for an employee without open punch returns action in; the
\* next call for that employee after an ok/in returns action out and is not
\* blocked, whatever the gap
C12_ToggleAlternates ==
    \A i \in 1 .. Len(trail) :
        /\ (trail[i].status \in {"ok", "queued", "blocked"} /\ ~trail[i].hadOpen)
               => trail[i].action = "in"
        /\ (NextCallReturned(i) /\ trail[i - 1].status = "ok"
                /\ trail[i - 1].action = "in")
               => trail[i].action = "out" /\ trail[i].status # "blocked"

\* C12 witness: ok/in followed, within the debounce window of 30 s, by a
\* returned call for the same employee
C12_Witness ==
    /\ Len(trail) >= 2
    /\ NextCallReturned(2)
    /\ trail[1].status = "ok" /\ trail[1].action = "in"
    /\ debounceSetting = "None"
    /\ trail[2].now - trail[1].now < DefaultDebounce
    /\ trail[2].status = "ok"

HandlerReturns(p) == hs[p].pc \notin {"returned", "raised"} /\ hs'[p].pc = "returned"

\* C13: a call that returns blocked appends nothing to the queue and leaves
\* the Punch Store unchanged (it has written nothing and enqueued nothing);
\* an event is appended only by a call that entered clock_in / clock_out and
\* whose direct write raised
C13_BlockedChangesNothing ==
    [][\A p \in Handlers :
           /\ (HandlerReturns(p) /\ hs'[p].res.status = "blocked")
                  => /\ punches' = punches
                     /\ queueFile' = queueFile
                     /\ ~hs'[p].wrote
                     /\ hs'[p].uuid \notin enqueuedIds'
           /\ EnqueueReturns(p)
                  => /\ hs[p].ts # 0
                     /\ hs'[p].res.status = "queued"]_vars

\* C13 witness: a call has returned blocked
C13_Witness ==
    \E p \in Handlers : hs[p].pc = "returned" /\ hs[p].res.status = "blocked"

\* C14: every result has status ok, queued or blocked and action in or out,
\* with punch_id exactly when ok, event_id exactly when queued and
\* retry_after_seconds exactly when blocked
C14_ResultShape ==
    \A p \in Handlers :
        hs[p].pc = "returned" =>
            LET res == hs[p].res
            IN  /\ res.status \in {"ok", "queued", "blocked"}
                /\ res.action \in {"in", "out"}
                /\ ("punch_id" \in DOMAIN res) <=> (res.status = "ok")
                /\ ("event_id" \in DOMAIN res) <=> (res.status = "queued")
                /\ ("retry_after_seconds" \in DOMAIN res) <=> (res.status = "blocked")

\* C14 witness: one call has returned queued and another one ok
C14_Witness ==
    \E p, q \in Handlers :
        /\ hs[p].pc = "returned" /\ hs[p].res.status = "queued"
        /\ hs[q].pc = "returned" /\ hs[q].res.status = "ok"

\* timestamps of the failed attempts of a source
FailureTimes(T, source) ==
    {T[i].ts : i \in {j \in 1 .. Len(T) : T[j].source = source /\ T[j].success = 0}}

\* the latest check was made for a source with at least 5 failures in the
\* 300 s up to its last failure, under the default settings
FiveFailures ==
    /\ lockSettings = DefaultLockSettings
    /\ lastCheck # NoCheck
    /\ FailureTimes(pinAttempts, lastCheck.source) # {}
    /\ LET last == MaxOf(FailureTimes(pinAttempts, lastCheck.source))
       IN  Cardinality(FailedSince(pinAttempts, lastCheck.source,
                                   last - DefaultWindow)) >= DefaultMaxAttempts

LastFailure == MaxOf(FailureTimes(pinAttempts, lastCheck.source))

\* C15: after 5 failures within 300 s (defaults 5 / 300 s / 10 min) the check
\* at the instant of the last failure reports locked with until = last
\* failure + 10 min, every further check before until reports locked, and a
\* check after until reports unlocked
C15_LockoutScenario ==
    FiveFailures =>
        LET until == LastFailure + DefaultLockoutMinutes * SecondsPerMinute
        IN  /\ lastCheck.now = LastFailure
                => lastCheck.locked /\ lastCheck.until = until
            /\ (lastCheck.now >= LastFailure /\ lastCheck.now < until)
                => lastCheck.locked
            /\ lastCheck.now > until => ~lastCheck.locked

\* C16: if a check reported locked with until U and no attempt has been
\* recorded since, every later check for that source at a time before U
\* reports locked
C16_RetryHorizonHonoured ==
    [][(/\ lastCheck # NoCheck /\ lastCheck.locked
        /\ lastCheck' # NoCheck
        /\ lastCheck'.source = lastCheck.source
        /\ lastCheck'.now >= lastCheck.now
        /\ lastCheck'.now < lastCheck.until)
           => lastCheck'.locked]_vars

\* the PIN typed is the PIN of an active employee
CorrectPin(pin) == \E e \in Employees : active[e] = 1 /\ PinOf[e] = pin

\* C17: a submission whose lockout check reported locked ends there: no
\* verify_employee_pin, no PinAttempt, no toggle_punch (hence no punch and
\* no queue event), whatever the PIN
C17_LockedShortCircuits ==
    \A t \in Handlers :
        ks[t].lockedSeen =>
            /\ ks[t].pc = "locked"
            /\ ~ks[t].verified
            /\ ks[t].recorded = 0
            /\ ~ks[t].toggled

\* C17 witness: a submission with a correct PIN got the locked response
C17_Witness ==
    \E t \in Handlers :
        ks[t].pc = "locked" /\ ks[t].lockedSeen /\ CorrectPin(ks[t].pin)

\* C18: a PIN is prompted for only after check_pin_lockout was called in
\* this submission (and reported unlocked)
C18_CheckBeforePrompt ==
    \A t \in Handlers : ks[t].prompted # "unchecked"

\* the row a submission has recorded
RecordedRow(k) == pinAttempts[k.rowId]

\* C19: a submission that passed the lockout check appends at most one
\* PinAttempt, and exactly one once verification is over (success with the
\* matched employee id, failure with none); toggle_punch is invoked only
\* after a success was recorded, never after a failed verification
C19_OneAttemptBeforeToggle ==
    \A t \in Handlers :
        LET k == ks[t]
        IN  /\ k.recorded <= 1
            /\ k.pc \in {"bad", "toggle", "wait", "done"}
                   => /\ k.recorded = 1
                      /\ RecordedRow(k).source = k.source
                      /\ RecordedRow(k).employee_id = k.emp
                      /\ RecordedRow(k).success = (IF k.emp = NoEmp THEN 0 ELSE 1)
            /\ k.pc = "bad" => k.emp = NoEmp
            /\ k.toggled
                   => /\ k.emp # NoEmp
                      /\ k.recorded = 1
                      /\ RecordedRow(k).success = 1
                      /\ hs[t].emp = k.emp

\* C19 witness: one terminal has recorded a failure and ended, another has
\* recorded a success and called toggle_punch
C19_Witness ==
    \E t, u \in Handlers :
        /\ ks[t].pc = "bad" /\ ks[t].recorded = 1
        /\ ks[u].pc = "done" /\ ks[u].toggled

\* C20: verify_employee_pin never returns an employee whose active flag is
\* 0, and once disable_employee(e) has set the flag no PIN submission writes
\* a punch or a queue event for e
C20_DisabledNeverPunches ==
    [][\A t \in Handlers :
           /\ (ks[t].pc = "verify" /\ ks'[t].pc = "record" /\ ks'[t].emp # NoEmp)
                  => active[ks'[t].emp] = 1
           /\ (/\ ks[t].toggled
               /\ hs'[t] # hs[t]
               /\ (punches' # punches \/ queueFile' # queueFile))
                  => active[hs[t].emp] = 1]_vars

\* remove_events is being executed by the thread r
InRemove(r) == r.pc \in {"rm_read", "rm_replace"}

\* C21: in every launch mode at most one Reconciler thread exists in the
\* process, so remove_events is never executed by two threads at a time
C21_SingleReconciler ==
    /\ rcOther.pc = "none"
    /\ ~(InRemove(rc) /\ InRemove(rcOther))

\* C22: for any employee and any range the per-day values of daily_totals
\* add up to period_total of the same range
C22_DailySumsToPeriod ==
    report.done = {"daily", "period"} => SumFn(report.daily) = report.total

\* the ids of the events of a snapshot
SnapIds(snap) == {snap[i].id : i \in 1 .. Len(snap)}

\* C23: a cycle snapshots the queue before it changes anything; remove is
\* entered only after the whole sweep, with exactly the ids that applied
\* without error, and not at all when none applied; when the cycle's remove
\* is over, every event it did not apply (one whose application raised, or
\* one enqueued after the snapshot) is still in the queue, unchanged
C23_CycleRemovesOnlyApplied ==
    [][crashes' = crashes =>
           /\ (rc.pc = "wait" /\ rc'.pc = "sweep")
                  => /\ rc'.snap = iter_events(queueFile)
                     /\ rc'.applied = <<>>
                     /\ punches' = punches /\ queueFile' = queueFile
           /\ (rc.pc # "rm_read" /\ rc'.pc = "rm_read")
                  => /\ rc.pc = "sweep" /\ rc.i > Len(rc.snap)
                     /\ rc'.applied = rc.applied /\ rc.applied # <<>>
                     /\ SeqToSet(rc.applied) \subseteq appliedIds \cap SnapIds(rc.snap)
           /\ (rc.pc = "sweep" /\ rc'.pc = "wait")
                  => rc.applied = <<>> /\ queueFile' = queueFile
           /\ rc.pc \notin {"rm_read", "rm_replace"}
                  => SeqToSet(iter_events(queueFile)) \subseteq SeqToSet(iter_events(queueFile'))
           /\ RemoveCompletes
                  => \A ev \in SeqToSet(iter_events(queueFile)) :
                         ev.id \notin SeqToSet(rc.applied)
                             => ev \in SeqToSet(iter_events(queueFile'))]_vars

\* the Reconciler is about to dispatch the event snap[i]
Dispatching == rc.pc = "sweep" /\ rc.i <= Len(rc.snap)

UnknownKind(ev) == ev.kind \notin {"clock_in", "clock_out"}

\* C24: an event of unknown kind is handled without any change to the Punch
\* Store and counts as applied; the cycle that handled it (its remove not
\* failing) ends with the event gone from the queue, so no later cycle sees
\* it again
C24_UnknownKindDropped ==
    [][/\ (Dispatching /\ UnknownKind(rc.snap[rc.i]) /\ rc' # rc)
              => /\ punches' = punches
                 /\ rc' = RApplied(rc)
       /\ (CycleEnds /\ ~tickErrors')
              => \A ev \in SeqToSet(rc.snap) :
                     UnknownKind(ev) => ev.id \notin QueueIds(queueFile')
       /\ \A id \in appliedIds \ QueueIds(queueFile) : id \notin QueueIds(queueFile')]_vars

\* C24 witness: a cycle over a log with an event of unknown kind has ended
\* while the store was down: the log is empty and the table is as it was
C24_Witness ==
    /\ rc.pc = "wait"
    /\ store = "down"
    /\ appliedIds # {}
    /\ queueFile = <<>>
    /\ applyCount = [i \in 1 .. MaxCalls |-> 0]

\* the statement the Reconciler is about to run for snap[i] raises: the store
\* is unavailable, or insert_punch / close_open_punch finds its open-punch
\* invariant violated
ApplyRaises ==
    \/ /\ Dispatching
       /\ ~UnknownKind(rc.snap[rc.i])
       /\ LET ev == rc.snap[rc.i]
              rows == OpenRows(punches, ev.employee_id)
          IN  \/ store = "down"
              \/ ev.kind = "clock_in" /\ rows # {}
              \/ ev.kind = "clock_out" /\ Cardinality(rows) # 1
    \/ rc.pc \in {"r_ins", "r_upd", "r_audit"} /\ store = "down"

\* C25: an event whose application raises is skipped (the sweep goes on with
\* the next event of the snapshot) and is retained; a failing remove leaves
\* the log as it is; neither ends the loop: only the stop event does, and a
\* waiting loop whose stop event is not set can start its next cycle
C25_FailuresKeepLoopAlive ==
    [][/\ (ApplyRaises /\ rc' # rc)
              => /\ rc' = [rc EXCEPT !.pc = "sweep", !.i = rc.i + 1]
                 /\ queueFile' = queueFile
       /\ (rc.pc = "rm_read" /\ rc'.pc = "wait")
              => tickErrors' /\ queueFile' = queueFile
       /\ CycleEnds
              => \A ev \in SeqToSet(rc.snap) :
                     ev.id \notin SeqToSet(rc.applied)
                         => ev \in SeqToSet(iter_events(queueFile'))
       /\ (rc.pc # "stopped" /\ rc'.pc = "stopped") => (rc.pc = "wait" /\ stopEvent)
       /\ (rc.pc = "wait" /\ ~stopEvent) => ENABLED RSnapshot]_vars

\* C25 witness: an earlier cycle applied the first event and its remove
\* failed; in the present cycle that event has raised and the second event
\* of the snapshot is being attempted
C25_Witness ==
    /\ rc.pc = "sweep" /\ rc.i = 2 /\ Len(rc.snap) = 2
    /\ rc.applied = <<>>
    /\ rc.snap[1].id \in appliedIds
    /\ ~UnknownKind(rc.snap[1])

\* C26: once the stop event is set no cycle is started; a cycle in progress
\* is not cut short and its remove replaces the log; the waiting loop, when
\* it moves, terminates; and the loop does terminate
C26_StopEndsLoop ==
    /\ [][/\ stopEvent => ~(rc.pc = "wait" /\ rc'.pc = "sweep")
          /\ rc.pc \notin {"wait", "stopped"} => rc'.pc # "stopped"
          /\ (stopEvent /\ rc.pc = "rm_replace" /\ rc' # rc)
                 => queueFile' = rc.tmp /\ rc'.pc = "wait"
          /\ (stopEvent /\ rc.pc = "wait" /\ rc' # rc) => rc'.pc = "stopped"
          /\ rc.pc = "stopped" => rc' = rc /\ queueFile' = queueFile]_vars
    /\ (stopEvent ~> rc.pc = "stopped")

\* C26 witness: the stop event was set while a cycle was inside remove_events
C26_Witness == stopEvent /\ rc.pc = "rm_replace" /\ rc.tmp # queueFile

\* C27: if the store is eventually always available (and the loop is not
\* stopped), the queue eventually holds no valid event
C27_QueueDrains ==
    (<>[](store = "up") /\ []~stopEvent) => <>[](iter_events(queueFile) = <<>>)

\* C28: in every reachable state every closed punch has a clock-out that is
\* not earlier than its clock-in
C28_ClockOutNotBeforeClockIn ==
    \A i \in 1 .. Len(punches) :
        punches[i].clock_out # NULL => punches[i].clock_out >= punches[i].clock_in

\* the instant t lies inside the interval of punch p: at or after its
\* clock-in and before its clock-out (an open punch has no upper end)
InsidePunch(t, p) ==
    /\ p.clock_in <= t
    /\ (p.clock_out = NULL \/ t < p.clock_out)

\* the punch covers some time: it is open or its clock-out is after its
\* clock-in (a punch closed at its own clock-in instant covers nothing)
CoversTime(p) == p.clock_out = NULL \/ p.clock_out > p.clock_in

\* C29: in every reachable state the punch intervals of one employee are
\* pairwise disjoint: no punch has a clock-in inside another punch of the
\* same employee
C29_IntervalsDisjoint ==
    \A i, j \in 1 .. Len(punches) :
        (/\ i # j
         /\ punches[i].employee_id = punches[j].employee_id
         /\ CoversTime(punches[i]))
            => ~InsidePunch(punches[i].clock_in, punches[j])

\* C30: a clock-out that is set never changes again, and no punch row is
\* ever removed from the table
C30_ClockOutWrittenOnce ==
    [][/\ Len(punches') >= Len(punches)
       /\ \A i \in 1 .. Len(punches) :
            /\ punches'[i].employee_id = punches[i].employee_id
            /\ punches'[i].clock_in = punches[i].clock_in
            /\ punches[i].clock_out # NULL
                 => punches'[i].clock_out = punches[i].clock_out]_vars

\* C31: a step that writes a clock-out is taken only while the employee of
\* that punch has exactly one open punch, which is the punch written, and it
\* changes no other punch; a close_open_punch that finds zero or several
\* open punches raises and changes no punch
C31_CloseNeedsOneOpen ==
    [][/\ \A i \in 1 .. Len(punches) :
            punches'[i].clock_out # punches[i].clock_out
                => /\ OpenRows(punches, punches[i].employee_id) = {i}
                   /\ \A j \in 1 .. Len(punches) : j # i => punches'[j] = punches[j]
       /\ \A p \in Handlers :
            (/\ hs[p].pc = "co_sel" /\ hs'[p] # hs[p]
             /\ Cardinality(OpenRows(punches, hs[p].emp)) # 1)
                => punches' = punches /\ hs'[p].pc \in {"enq", "raised"}]_vars

\* C32: a step that adds a punch is taken only while the employee of the new
\* punch has no open punch; it adds exactly one punch, with null clock-out,
\* and changes no other punch; an insert_punch that finds an open punch
\* raises and adds no punch
C32_InsertNeedsNoOpen ==
    [][/\ Len(punches') # Len(punches)
            => /\ Len(punches') = Len(punches) + 1
               /\ punches'[Len(punches')].clock_out = NULL
               /\ OpenRows(punches, punches'[Len(punches')].employee_id) = {}
               /\ \A j \in 1 .. Len(punches) : punches'[j] = punches[j]
       /\ \A p \in Handlers :
            (/\ hs[p].pc = "ci_sel" /\ hs'[p] # hs[p]
             /\ OpenRows(punches, hs[p].emp) # {})
                => punches' = punches /\ hs'[p].pc \in {"enq", "raised"}]_vars

\* chunk i of the log is a line of its own
WholeLineAt(f, i) ==
    /\ i = 1 \/ f[i - 1].t = "nl"
    /\ i = Len(f) \/ f[i + 1].t = "nl"

\* chunk i of the log is a well-formed event line: one JSON object with an
\* id key, alone on its line
WellFormedAt(f, i) ==
    /\ f[i].t = "json"
    /\ f[i].id # NoId
    /\ WholeLineAt(f, i)

\* the well-formed events of the log from chunk i on, in file order
RECURSIVE WellFormedFrom(_, _)
WellFormedFrom(f, i) ==
    IF i > Len(f) THEN <<>>
    ELSE (IF WellFormedAt(f, i) THEN <<json_object(f[i])>> ELSE <<>>)
             \o WellFormedFrom(f, i + 1)

\* C33: iterate never fails on a malformed, truncated, non-object or
\* id-less line: the snapshot list(iter_events()) holds every well-formed
\* event of the log, before and after such a line, in file order, and the
\* tick has caught no error
C33_IterateSkipsBadLines ==
    [][(rc.pc = "wait" /\ rc'.pc = "sweep")
           => /\ rc'.snap = WellFormedFrom(queueFile, 1)
              /\ ~tickErrors']_vars

\* C33 witness: the snapshot was taken of a log whose first and last lines
\* are well-formed events with a skipped line between them
C33_Witness ==
    /\ rc.pc = "sweep"
    /\ Len(rc.snap) = 2
    /\ Len(SplitLines(queueFile)) = 3
    /\ WellFormedAt(queueFile, 1)
    /\ ~IterYields(SplitLines(queueFile)[2])

\* the log ends in a record without newline
TornTail(f) == Len(f) > 0 /\ f[Len(f)].t # "nl"

\* C34: after a crash that left a truncated final record without newline,
\* every event whose enqueue returns after the restart is yielded by
\* iterate
C34_TornTailKeepsNextEvent ==
    [][\A p \in Handlers :
           (EnqueueReturns(p) /\ crashes > 0 /\ TornTail(queueFile))
               => QueuedEvent(hs[p]) \in SeqToSet(iter_events(queueFile'))]_vars

\* C35: remove is atomic under crash: every step taken while remove_events
\* runs (the temp file write, a failure, the rename, a crash before or after
\* either) leaves the log with its complete old contents, or, for the
\* rename, with the complete new contents; a crash or a failure before the
\* rename leaves the log unchanged
C35_RemoveAtomicUnderCrash ==
    [][rc.pc \in {"rm_read", "rm_replace"}
           => \/ queueFile' = queueFile
              \/ /\ rc.pc = "rm_replace"
                 /\ crashes' = crashes
                 /\ queueFile' = remove_copy(queueFile, SeqToSet(rc.applied))]_vars

\* C35 witness: the process crashed inside remove_events before the rename
\* and the read after the restart yields the old contents, applied events
\* included
C35_Witness ==
    /\ crashes = 1
    /\ rc.pc = "sweep"
    /\ appliedIds # {}
    /\ appliedIds \subseteq SnapIds(rc.snap)

\* the failed attempts of source whose timestamp lies in [now - window, now]
FailedInWindow(T, source, now, window_s) ==
    {i \in 1 .. Len(T) : /\ T[i].source = source
                          /\ T[i].success = 0
                          /\ T[i].ts >= now - window_s
                          /\ T[i].ts <= now}

\* C36: check_lockout(source, now) counts exactly the failed attempts of
\* that source with timestamp in [now - window, now]: it answers locked only
\* if there are at least max_attempts of them, and it answers locked if
\* there are and now is before the most recent of them plus the lockout
C36_CountsClosedWindow ==
    lastCheck.source # ""
        => LET window_s == SettingInt(lockSettings.window, DefaultWindow)
               max_attempts == SettingInt(lockSettings.max_attempts, DefaultMaxAttempts)
               lockout_min == SettingInt(lockSettings.lockout, DefaultLockoutMinutes)
               counted == FailedInWindow(pinAttempts, lastCheck.source,
                                         lastCheck.now, window_s)
           IN  /\ lastCheck.locked => Cardinality(counted) >= max_attempts
               /\ (/\ Cardinality(counted) >= max_attempts
                    /\ \E i \in counted :
                           lastCheck.now < pinAttempts[i].ts + lockout_min * SecondsPerMinute)
                      => lastCheck.locked

\* C37: lockout is partitioned by source: recording an attempt for one
\* source changes the result of check_lockout for no other source, at any
\* instant now
C37_LockoutPerSource ==
    [][pinAttempts' # pinAttempts
           => \A B \in Sources \ {pinAttempts'[Len(pinAttempts')].source} :
                \A k \in 0 .. MaxLockSteps :
                    check_pin_lockout(pinAttempts', B, k * LockStep, lockSettings)
                        = check_pin_lockout(pinAttempts, B, k * LockStep, lockSettings)]_vars

\* C37 witness: source k1 is locked by its failed attempts and a check for
\* source k2 has just answered not locked
C37_Witness ==
    /\ check_pin_lockout(pinAttempts, "k1", clock, lockSettings).locked
    /\ lastCheck.source = "k2"
    /\ lastCheck.now = clock
    /\ ~lastCheck.locked
    /\ \E i \in 1 .. Len(pinAttempts) : pinAttempts[i].source = "k2"

\* handler p has just run the debounce check of its call
DebounceChecked(p) == hs[p].pc = "t_deb" /\ hs'[p].pc # "t_deb"

\* C38: the debounce comparison is the half-open interval [0, window): with
\* the last action equal to the desired action a delta of window - 1 is
\* blocked and a delta of window is not; a negative delta is not blocked;
\* an employee without punch record is never blocked; the call is blocked
\* exactly when last action = desired action and 0 <= delta < window
C38_DebounceHalfOpen ==
    [][\A p \in Handlers : DebounceChecked(p) =>
           LET blocked == hs'[p].pc = "returned" /\ hs'[p].res.status = "blocked"
               window == DebounceSeconds(debounceSetting)
               rows == EmpRows(punches, hs[p].emp)
               row == punches[MaxOf(rows)]
               same == (row.clock_out = NULL) = (hs[p].action = "in")
               delta == hs[p].now - (IF row.clock_out = NULL THEN row.clock_in
                                     ELSE row.clock_out)
           IN  /\ rows = {} => ~blocked
               /\ rows # {} =>
                    /\ (same /\ window >= 1 /\ delta = window - 1) => blocked
                    /\ delta = window => ~blocked
                    /\ delta < 0 => ~blocked
                    /\ blocked <=> (same /\ delta >= 0 /\ delta < window)]_vars

\* C38 witness: a call was blocked at delta = window - 1 of the default
\* window
C38_Witness ==
    /\ hs[KioskCaller].pc = "returned"
    /\ hs[KioskCaller].res.status = "blocked"
    /\ hs[KioskCaller].res.retry_after_seconds = DefaultDebounce
    /\ hs[KioskCaller].now = LastActionAt + DefaultDebounce - 1

\* C39: toggle_punch returns blocked only when the employee's most recent
\* (highest-id) punch is closed while an older punch of that employee is
\* still open; with at most one open punch that is the highest-id punch it
\* never returns blocked
C39_BlockedOnlyWithOlderOpen ==
    [][\A p \in Handlers :
           (/\ DebounceChecked(p)
            /\ hs'[p].pc = "returned"
            /\ hs'[p].res.status = "blocked")
               => LET rows == EmpRows(punches, hs[p].emp)
                  IN  /\ rows # {}
                      /\ punches[MaxOf(rows)].clock_out # NULL
                      /\ \E i \in OpenRows(punches, hs[p].emp) : i < MaxOf(rows)]_vars

\* C40: the timestamp toggle_punch has written to the Punch Store or put in
\* the QueuedEvent, and returns in its result, equals the now it was called
\* with
C40_TimestampIsNow ==
    \A p \in Handlers :
        (hs[p].pc = "returned" /\ hs[p].res.status \in {"ok", "queued"})
            => hs[p].res.ts = hs[p].now

====
